---------------------------- MODULE Spec2Model ----------------------------
(***************************************************************************)
(* Loop yield synthesis of the stablecoin-yields aggregator.               *)
(*                                                                         *)
(* Modelled code: scrapers/morpho_loop.py (MorphoLoopScraper),             *)
(* scrapers/pendle_loop.py (PendleLoopScraper), scrapers/pendle_fixed.py   *)
(* (the collateral source handed to the Pendle loop), config.py and the    *)
(* PendleLoopScraper copy of streamlit_app.py.                             *)
(*                                                                         *)
(* Representation.                                                         *)
(*  - A Python str is a sequence of one-character strings; JSON null /     *)
(*    Python None in a string position is the sequence None.               *)
(*  - Rates, leverage and collateral factors are fixed-point numbers with  *)
(*    three decimals (8.0 is 8000, 0.85 is 850); products are rescaled by  *)
(*    FixMul.  Python computes in binary floating point: the input sets    *)
(*    below leave out the two grid points (LLTV 0.70 and 0.82) where the   *)
(*    double rounding of 1/(1-lltv)*margin differs from exact arithmetic.  *)
(*  - A datetime is a number of ticks (TicksPerDay ticks a day) counted    *)
(*    from the proleptic Gregorian ordinal, as datetime.toordinal does.    *)
(***************************************************************************)
EXTENDS Integers, Sequences, FiniteSets, TLC

(***************************************************************************)
(* Bounds of the model                                                     *)
(***************************************************************************)
\* granularity of a datetime: ticks per day (2 = half days)
TicksPerDay == 2
\* number of market records in one batch
BatchLen == 2

(***************************************************************************)
(* Program constants                                                       *)
(***************************************************************************)
\* "if days_diff > 3" in PendleLoopScraper._find_best_borrow_markets
PendleMaturityToleranceDays == 3
\* "return days_diff <= 7" in streamlit_app.PendleLoopScraper._maturities_match
StMaturityToleranceDays == 7

(***************************************************************************)
(* Characters and Python string methods                                    *)
(***************************************************************************)
None == <<"None">>

LowerChars == <<"a","b","c","d","e","f","g","h","i","j","k","l","m",
                "n","o","p","q","r","s","t","u","v","w","x","y","z">>
UpperChars == <<"A","B","C","D","E","F","G","H","I","J","K","L","M",
                "N","O","P","Q","R","S","T","U","V","W","X","Y","Z">>
DigitChars == <<"0","1","2","3","4","5","6","7","8","9">>

UpperSet == {UpperChars[k] : k \in 1..Len(UpperChars)}
DigitSet == {DigitChars[k] : k \in 1..Len(DigitChars)}
LowerSet == {LowerChars[k] : k \in 1..Len(LowerChars)}

\* the upper-case letter of each lower-case letter
UpperOf == [c \in LowerSet |->
               UpperChars[CHOOSE k \in 1..Len(LowerChars) : LowerChars[k] = c]]
\* the value of each digit
ValueOf == [c \in DigitSet |->
               (CHOOSE k \in 1..Len(DigitChars) : DigitChars[k] = c) - 1]

IsUpperLetter(c) == c \in UpperSet
IsDigit(c) == c \in DigitSet
DigitVal(c) == ValueOf[c]

\* str.upper() on one character
UpperChar(c) == IF c \in LowerSet THEN UpperOf[c] ELSE c

\* str.upper()
Upper(s) == [k \in 1..Len(s) |-> UpperChar(s[k])]

\* str.startswith(pre)
StartsWith(s, pre) ==
    /\ Len(pre) <= Len(s)
    /\ SubSeq(s, 1, Len(pre)) = pre

\* `sub in s` for Python strings
Contains(s, sub) ==
    \E k \in 0..(Len(s) - Len(sub)) : SubSeq(s, k + 1, k + Len(sub)) = sub

\* str.replace(pat, "") for a non-empty pat: every non-overlapping occurrence,
\* scanning from the left
RECURSIVE RemoveAll(_, _)
RemoveAll(s, pat) ==
    IF Len(s) < Len(pat) THEN s
    ELSE IF SubSeq(s, 1, Len(pat)) = pat
         THEN RemoveAll(SubSeq(s, Len(pat) + 1, Len(s)), pat)
         ELSE <<s[1]>> \o RemoveAll(Tail(s), pat)

\* str.rstrip("-")
RECURSIVE RStripDash(_)
RStripDash(s) ==
    IF Len(s) > 0 /\ s[Len(s)] = "-" THEN RStripDash(SubSeq(s, 1, Len(s) - 1))
    ELSE s

\* the three characters s[k..k+2] are upper-case letters ([A-Z]{3})
ThreeLettersAt(s, k) ==
    /\ k + 2 <= Len(s)
    /\ \A j \in k..(k + 2) : IsUpperLetter(s[j])

\* the four characters s[k..k+3] are digits (\d{4})
FourDigitsAt(s, k) ==
    /\ k + 3 <= Len(s)
    /\ \A j \in k..(k + 3) : IsDigit(s[j])

\* \d{nd}[A-Z]{3}\d{4} matches s starting at position k
DateTokenAt(s, k, nd) ==
    /\ k >= 1
    /\ k + nd - 1 <= Len(s)
    /\ \A j \in k..(k + nd - 1) : IsDigit(s[j])
    /\ ThreeLettersAt(s, k + nd)
    /\ FourDigitsAt(s, k + nd + 3)

\* re.sub(r"-?\d{1,2}[A-Z]{3}\d{4}$", "", s): the leftmost match that ends at
\* the end of the string is the longest suffix of the pattern's shape
StripDateSuffix(s) ==
    LET n == Len(s)
        Whole(k, dash, nd) ==
            /\ k >= 1
            /\ (dash = 1) => s[k] = "-"
            /\ DateTokenAt(s, k + dash, nd)
            /\ k + dash + nd + 7 = n + 1
    IN  IF      Whole(n - 9, 1, 2) THEN SubSeq(s, 1, n - 10)
        ELSE IF Whole(n - 8, 1, 1) THEN SubSeq(s, 1, n - 9)
        ELSE IF Whole(n - 8, 0, 2) THEN SubSeq(s, 1, n - 9)
        ELSE IF Whole(n - 7, 0, 1) THEN SubSeq(s, 1, n - 8)
        ELSE s

(***************************************************************************)
(* Dates: datetime(year, month, day) and timedelta.days                    *)
(***************************************************************************)
MonthNames == << <<"J","A","N">>, <<"F","E","B">>, <<"M","A","R">>,
                 <<"A","P","R">>, <<"M","A","Y">>, <<"J","U","N">>,
                 <<"J","U","L">>, <<"A","U","G">>, <<"S","E","P">>,
                 <<"O","C","T">>, <<"N","O","V">>, <<"D","E","C">> >>

\* month_map.get(month_str): 0 stands for None
MonthNumber(letters) ==
    IF \E k \in 1..12 : MonthNames[k] = letters
    THEN CHOOSE k \in 1..12 : MonthNames[k] = letters
    ELSE 0

IsLeap(y) == (y % 4 = 0) /\ ((y % 100 # 0) \/ (y % 400 = 0))

DaysInMonth(y, m) ==
    IF m = 2 THEN (IF IsLeap(y) THEN 29 ELSE 28)
    ELSE IF m \in {4, 6, 9, 11} THEN 30 ELSE 31

\* a variant of the constructor's validation that accepts every day number
AnyDayValid(y, m, d) == TRUE

\* datetime(y, m, d) raises ValueError outside these ranges
ValidDate(y, m, d) ==
    /\ y >= 1 /\ y <= 9999
    /\ m >= 1 /\ m <= 12
    /\ d >= 1 /\ d <= DaysInMonth(y, m)

RECURSIVE DaysBeforeMonth(_, _)
DaysBeforeMonth(y, m) ==
    IF m <= 1 THEN 0 ELSE DaysBeforeMonth(y, m - 1) + DaysInMonth(y, m - 1)

\* date.toordinal(): days since 0001-01-01, that day being 1
Ordinal(y, m, d) ==
    LET p == y - 1
    IN  365 * p + (p \div 4) - (p \div 100) + (p \div 400)
        + DaysBeforeMonth(y, m) + d

\* a datetime at midnight of the given day; the empty sequence is None
Midnight(y, m, d) == <<Ordinal(y, m, d) * TicksPerDay>>

\* (a - b).days for two datetimes: timedelta normalises to a floor
DeltaDays(a, b) == (a[1] - b[1]) \div TicksPerDay

Abs(x) == IF x < 0 THEN 0 - x ELSE x

(***************************************************************************)
(* Symbol / maturity normaliser of scrapers/pendle_loop.py                 *)
(***************************************************************************)
PTPrefix == <<"P","T","-">>

\* PendleLoopScraper._extract_underlying_from_pt
ExtractUnderlyingFromPt(pt_symbol) ==
    RStripDash(StripDateSuffix(RemoveAll(Upper(pt_symbol), PTPrefix)))

\* normalize() inside _underlyings_match
NormalizeSeparators(s) == RemoveAll(RemoveAll(s, <<"-">>), <<"_">>)

\* PendleLoopScraper._underlyings_match
UnderlyingsMatch(morpho_underlying, pendle_underlying) ==
    LET m == Upper(morpho_underlying)
        p == Upper(pendle_underlying)
    IN  IF m = p THEN TRUE
        ELSE IF NormalizeSeparators(m) = NormalizeSeparators(p) THEN TRUE
        ELSE IF StartsWith(m, <<"S">>) /\ ~StartsWith(p, <<"S">>) THEN FALSE
        ELSE IF StartsWith(p, <<"S">>) /\ ~StartsWith(m, <<"S">>) THEN FALSE
        ELSE FALSE

\* re.search(r"(\d{1,2})([A-Z]{3})(\d{4})", s): the leftmost start, and at
\* that start two day digits before one.  <<>> when nothing matches,
\* otherwise <<start, number of day digits>>.
SearchDateToken(s) ==
    LET starts == {k \in 1..Len(s) : DateTokenAt(s, k, 2) \/ DateTokenAt(s, k, 1)}
    IN  IF starts = {} THEN <<>>
        ELSE LET k == CHOOSE a \in starts : \A b \in starts : a <= b
             IN  <<k, IF DateTokenAt(s, k, 2) THEN 2 ELSE 1>>

RECURSIVE DigitsToInt(_)
DigitsToInt(ds) ==
    IF ds = <<>> THEN 0
    ELSE 10 * DigitsToInt(SubSeq(ds, 1, Len(ds) - 1)) + DigitVal(ds[Len(ds)])

\* PendleLoopScraper._extract_maturity_from_symbol
ExtractMaturityFromSymbol(symbol) ==
    LET s   == Upper(symbol)
        hit == SearchDateToken(s)
    IN  IF hit = <<>> THEN <<>>
        ELSE LET k     == hit[1]
                 nd    == hit[2]
                 day   == DigitsToInt(SubSeq(s, k, k + nd - 1))
                 month == MonthNumber(SubSeq(s, k + nd, k + nd + 2))
                 year  == DigitsToInt(SubSeq(s, k + nd + 3, k + nd + 6))
             IN  IF month = 0 THEN <<>>
                 ELSE IF ~ValidDate(year, month, day) THEN <<>>
                 ELSE Midnight(year, month, day)

\* lines 193-205 of _find_best_borrow_markets: the maturity test on one market
MaturityAccepted(collateral_sym, maturity_date) ==
    IF maturity_date # <<>>
    THEN LET morpho_maturity == ExtractMaturityFromSymbol(collateral_sym)
         IN  IF morpho_maturity = <<>> THEN FALSE
             ELSE ~(Abs(DeltaDays(morpho_maturity, maturity_date)) > PendleMaturityToleranceDays)
    ELSE FALSE

(***************************************************************************)
(* The PendleLoopScraper copy of streamlit_app.py                          *)
(***************************************************************************)
\* number of digits at the end of s
RECURSIVE TrailingDigits(_)
TrailingDigits(s) ==
    IF Len(s) > 0 /\ IsDigit(s[Len(s)])
    THEN 1 + TrailingDigits(SubSeq(s, 1, Len(s) - 1))
    ELSE 0

\* re.sub(r"-?\d{10,}$", "", s)
StripTimestampSuffix(s) ==
    LET r == TrailingDigits(s)
        n == Len(s)
    IN  IF r < 10 THEN s
        ELSE IF n > r /\ s[n - r] = "-" THEN SubSeq(s, 1, n - r - 1)
        ELSE SubSeq(s, 1, n - r)

\* re.sub(r"-\d+$", "", s)
StripNumericSuffix(s) ==
    LET r == TrailingDigits(s)
        n == Len(s)
    IN  IF r >= 1 /\ n > r /\ s[n - r] = "-" THEN SubSeq(s, 1, n - r - 1)
        ELSE s

\* streamlit_app.PendleLoopScraper._extract_underlying
StExtractUnderlying(pt_symbol) ==
    RStripDash(StripNumericSuffix(StripTimestampSuffix(
        StripDateSuffix(RemoveAll(Upper(pt_symbol), PTPrefix)))))

\* min(len a, len b) / max(len a, len b) >= 0.7
LengthRatioOk(a, b) ==
    LET lo == IF Len(a) < Len(b) THEN Len(a) ELSE Len(b)
        hi == IF Len(a) < Len(b) THEN Len(b) ELSE Len(a)
    IN  10 * lo >= 7 * hi

\* streamlit_app.PendleLoopScraper._underlyings_match
StUnderlyingsMatch(pt_collateral, pendle_underlying) ==
    LET morpho_under == StExtractUnderlying(pt_collateral)
        pendle_under == NormalizeSeparators(Upper(pendle_underlying))
    IN  IF morpho_under = pendle_under THEN TRUE
        ELSE IF StartsWith(morpho_under, <<"S">>) /\ ~StartsWith(pendle_under, <<"S">>)
             THEN FALSE
        ELSE IF StartsWith(pendle_under, <<"S">>) /\ ~StartsWith(morpho_under, <<"S">>)
             THEN FALSE
        ELSE IF NormalizeSeparators(Upper(morpho_under))
                    = NormalizeSeparators(Upper(pendle_under)) THEN TRUE
        ELSE IF Len(morpho_under) > 0 /\ Len(pendle_under) > 0
                /\ LengthRatioOk(morpho_under, pendle_under)
                /\ (Contains(pendle_under, morpho_under)
                    \/ Contains(morpho_under, pendle_under)) THEN TRUE
        ELSE FALSE

\* streamlit_app.PendleLoopScraper._maturities_match
StMaturitiesMatch(morpho_collateral, pendle_maturity) ==
    IF pendle_maturity = <<>> THEN FALSE
    ELSE LET morpho_maturity == ExtractMaturityFromSymbol(morpho_collateral)
         IN  IF morpho_maturity = <<>> THEN FALSE
             ELSE Abs(DeltaDays(morpho_maturity, pendle_maturity)) <= StMaturityToleranceDays

(***************************************************************************)
(* Fixed-point numbers and optional values                                 *)
(***************************************************************************)
\* the number whole + milli/1000
Fix(whole, milli) == whole * 1000 + milli

\* the product of two fixed-point numbers
FixMul(a, b) == (a * b) \div Fix(1, 0)

\* Python `x or 0` for an optional number: <<>> is None or a missing key
OrZero(opt) == IF opt = <<>> THEN 0 ELSE opt[1]

\* Python `a or b or 0` for two optional numbers (None and 0 are both falsy)
FirstTruthy(a, b) == IF OrZero(a) # 0 THEN OrZero(a) ELSE OrZero(b)

(***************************************************************************)
(* config.py                                                               *)
(***************************************************************************)
LEVERAGE_LEVELS == <<Fix(1, 0), Fix(2, 0), Fix(3, 0), Fix(5, 0)>>

(***************************************************************************)
(* scrapers/morpho_loop.py                                                 *)
(***************************************************************************)
MIN_TVL_USD == 10000
MAX_BORROW_APY == 50

YIELD_BEARING_PATTERNS ==
    << <<"S","U","S","D","E">>, <<"S","D","A","I">>, <<"S","U","S","D","S">>, <<"S","F","R","A","X">>, <<"M","H","Y","P","E","R">>, <<"S","U","S","N">>, <<"U","S","D","0","+","+">>,
       <<"S","C","R","V","U","S","D">>, <<"S","A","V","U","S","D">>, <<"S","T","U","S","D">>, <<"S","U","S","D","X">>, <<"P","T","-">>,
       <<"S","N","U","S","D">>, <<"S","R","U","S","D","E">>, <<"S","T","C","U","S","D">>, <<"W","S","R","U","S">>, <<"M","A","P","O","L","L","O">>, <<"R","L","P">>,
       <<"C","U","S","D">>, <<"R","U","S","D">>, <<"R","E","U","S","D">>, <<"I","U","S","D">>, <<"S","I","U","S","D">>, <<"J","R","U","S","D","E">>, <<"L","V","L","U","S","D">>,
       <<"Y","O","U","S","D">>, <<"M","M","E","V">> >>

MORPHO_BORROW_STABLES ==
    << <<"U","S","D","C">>, <<"U","S","D","T">>, <<"D","A","I">>, <<"U","S","D","S">>, <<"P","Y","U","S","D">>, <<"F","R","A","X">>, <<"C","R","V","U","S","D">>,
       <<"G","H","O">>, <<"U","S","D","A">> >>

\* FALLBACK_YIELD_RATES, in the order of the dict
FALLBACK_YIELD_RATES ==
    << <<<<"S","U","S","D","E">>, Fix(5, 0)>>,   <<<<"S","D","A","I">>, Fix(6, 0)>>,
       <<<<"S","U","S","D","S">>, Fix(6, 500)>>, <<<<"S","F","R","A","X">>, Fix(3, 500)>>,
       <<<<"M","H","Y","P","E","R">>, Fix(6, 0)>>,  <<<<"U","S","D","0","+","+">>, Fix(4, 0)>>,
       <<<<"S","C","R","V","U","S","D">>, Fix(5, 0)>>, <<<<"Y","O","U","S","D">>, Fix(8, 0)>>,
       <<<<"S","N","U","S","D">>, Fix(10, 0)>>,  <<<<"M","M","E","V">>, Fix(6, 0)>>,
       <<<<"S","R","U","S","D","E">>, Fix(5, 0)>>,  <<<<"S","T","C","U","S","D">>, Fix(5, 0)>> >>

\* any(pattern in symbol for pattern in patterns)
AnyPatternIn(patterns, symbol) ==
    \E k \in 1..Len(patterns) : Contains(symbol, patterns[k])

\* re.search(r'(\d{1,2})(JAN|...|DEC)(\d{4})', symbol): as SearchDateToken,
\* but only a real month abbreviation matches
SearchMonthDateToken(s) ==
    LET Hit(k, nd) == /\ DateTokenAt(s, k, nd)
                      /\ MonthNumber(SubSeq(s, k + nd, k + nd + 2)) # 0
        starts == {k \in 1..Len(s) : Hit(k, 2) \/ Hit(k, 1)}
    IN  IF starts = {} THEN <<>>
        ELSE LET k == CHOOSE a \in starts : \A b \in starts : a <= b
             IN  <<k, IF Hit(k, 2) THEN 2 ELSE 1>>

\* MorphoLoopScraper._is_pt_expired; today is date.today() as an ordinal
IsPtExpired(symbol, today) ==
    LET hit == SearchMonthDateToken(symbol)
    IN  IF hit = <<>> THEN FALSE
        ELSE LET k     == hit[1]
                 nd    == hit[2]
                 day   == DigitsToInt(SubSeq(symbol, k, k + nd - 1))
                 month == MonthNumber(SubSeq(symbol, k + nd, k + nd + 2))
                 year  == DigitsToInt(SubSeq(symbol, k + nd + 3, k + nd + 6))
             IN  IF ~ValidDate(year, month, day) THEN FALSE
                 ELSE Ordinal(year, month, day) < today

\* MorphoLoopScraper._is_yield_bearing
IsYieldBearing(symbol, today) ==
    IF ~AnyPatternIn(YIELD_BEARING_PATTERNS, symbol) THEN FALSE
    ELSE IF StartsWith(symbol, PTPrefix) /\ IsPtExpired(symbol, today) THEN FALSE
    ELSE TRUE

\* MorphoLoopScraper._is_borrow_stable
IsBorrowStable(symbol) == AnyPatternIn(MORPHO_BORROW_STABLES, symbol)

\* dict lookups on a dict kept as a sequence of <<key, value>> in insertion order
HasKey(d, key) == \E k \in 1..Len(d) : d[k][1] = key
Lookup(d, key) == d[CHOOSE k \in 1..Len(d) : d[k][1] = key][2]

\* the least element of a set of indexes; 0 when the set is empty
FirstIndex(hits) ==
    IF hits = {} THEN 0 ELSE CHOOSE a \in hits : \A b \in hits : a <= b

\* MorphoLoopScraper._get_collateral_yield
GetCollateralYield(symbol, live) ==
    LET LivePartial(e) == \/ Contains(symbol, e[1])
                          \/ (Contains(e[1], symbol) /\ ~StartsWith(e[1], PTPrefix))
        FallbackPartial(e) == Contains(symbol, e[1])
        lp == FirstIndex({k \in 1..Len(live) : LivePartial(live[k])})
        fp == FirstIndex({k \in 1..Len(FALLBACK_YIELD_RATES) :
                             FallbackPartial(FALLBACK_YIELD_RATES[k])})
    IN  IF HasKey(live, symbol) THEN Lookup(live, symbol)
        ELSE IF lp # 0 THEN live[lp][2]
        ELSE IF HasKey(FALLBACK_YIELD_RATES, symbol)
             THEN Lookup(FALLBACK_YIELD_RATES, symbol)
        ELSE IF fp # 0 THEN FALLBACK_YIELD_RATES[fp][2]
        ELSE 0

(***************************************************************************)
(* Raw LLTV values.  [enc |-> "wei", n |-> 850] is 850 * 10^15 (the 1e18   *)
(* scaled integer of 0.850), [enc |-> "dec", n |-> 850] is the decimal     *)
(* 0.850 (n <= 1000, possibly negative), "bad" a string float() rejects    *)
(* (ValueError) and "null" a JSON null (TypeError).                        *)
(***************************************************************************)
\* float(lltv_raw) raises ValueError or TypeError
LltvUnparsable(raw) == raw.enc \in {"bad", "null"}

\* float(lltv_raw) > 1: a wei value n * 10^15 exceeds 1 as soon as n >= 1
LltvAboveOne(raw) == raw.enc = "wei" /\ raw.n >= 1

\* the try block of _parse_lltv: lltv_val / 1e18 when lltv_val > 1, else
\* lltv_val, as a fixed-point number
LltvValue(raw) ==
    IF LltvAboveOne(raw) THEN (raw.n * Fix(1, 0)) \div 1000
    ELSE IF raw.enc = "wei" THEN 0
    ELSE raw.n

\* a variant of _parse_lltv that falls back to a default factor of 0.85
MorphoParseLltvDefaulting(raw) ==
    IF LltvUnparsable(raw) \/ LltvValue(raw) <= 0 THEN Fix(0, 850) ELSE LltvValue(raw)

\* MorphoLoopScraper._parse_lltv
MorphoParseLltv(raw) == IF LltvUnparsable(raw) THEN 0 ELSE LltvValue(raw)

(***************************************************************************)
(* Exact fractions <<numerator, denominator>> (denominator > 0), used for  *)
(* the leverage ceilings, which the code computes as 1 / (1 - lltv)        *)
(***************************************************************************)
RECURSIVE Gcd(_, _)
Gcd(a, b) == IF b = 0 THEN a ELSE Gcd(b, a % b)

QNorm(q) == LET g == Gcd(Abs(q[1]), q[2]) IN <<q[1] \div g, q[2] \div g>>
QOf(fix) == QNorm(<<fix, Fix(1, 0)>>)
QMul(a, b) == QNorm(<<a[1] * b[1], a[2] * b[2]>>)
QLess(a, b) == a[1] * b[2] < b[1] * a[2]
QMin(a, b) == IF QLess(b, a) THEN b ELSE a

\* "1 / (1 - lltv) if lltv < 1 else 1"
TheoreticalMaxLeverage(lltv) ==
    IF lltv < Fix(1, 0) THEN QNorm(<<Fix(1, 0), Fix(1, 0) - lltv>>) ELSE <<1, 1>>

(***************************************************************************)
(* MorphoLoopScraper._calculate_loop_opportunities                         *)
(***************************************************************************)
\* a variant of the safe maximum without the clamp to 5.0
MorphoSafeMaxLeverageUnclamped(lltv) ==
    QMul(TheoreticalMaxLeverage(lltv), QOf(Fix(0, 600)))

\* "theoretical_max_leverage * 0.6", then "min(safe_max_leverage, 5.0)"
MorphoSafeMaxLeverage(lltv) ==
    QMin(QMul(TheoreticalMaxLeverage(lltv), QOf(Fix(0, 600))), QOf(Fix(5, 0)))

\* a variant of the net APY that levers the spread
MorphoNetApyOfSpread(collateral_yield, borrow_apy, leverage) ==
    FixMul(collateral_yield - borrow_apy, leverage)

\* "net_apy = collateral_yield * leverage - borrow_apy * (leverage - 1)"
MorphoNetApy(collateral_yield, borrow_apy, leverage) ==
    FixMul(collateral_yield, leverage) - FixMul(borrow_apy, leverage - Fix(1, 0))

\* "if leverage > safe_max_leverage: continue"
MorphoTierTooHigh(leverage, safe_max_leverage) ==
    QLess(safe_max_leverage, QOf(leverage))

\* a variant of the profitability test that lets a net APY of 0 through
MorphoTierLosing(net_apy) == net_apy < 0

\* "if net_apy <= 0: continue"
MorphoTierUnprofitable(net_apy) == net_apy <= 0

\* the YieldOpportunity built for one tier
MorphoOpportunity(market, collateral_symbol, tvl, borrow_apy, lltv, collateral_yield, leverage) ==
    [ category   |-> "Morpho Borrow/Lend Loop",
      protocol   |-> "Morpho",
      chain      |-> market.chain,
      stablecoin |-> collateral_symbol,
      apy        |-> MorphoNetApy(collateral_yield, borrow_apy, leverage),
      tvl        |-> tvl,
      leverage   |-> leverage,
      supply_apy |-> collateral_yield,
      borrow_apy |-> borrow_apy,
      maturity_date |-> <<>>,
      market_id  |-> market.uniqueKey,
      lltv       |-> lltv * 100,
      safe_max_leverage |-> MorphoSafeMaxLeverage(lltv) ]

\* the loop over the leverage tiers of config.LEVERAGE_LEVELS, from tier k on
RECURSIVE MorphoTiers(_, _, _, _, _, _, _)
MorphoTiers(market, collateral_symbol, tvl, borrow_apy, lltv, collateral_yield, k) ==
    IF k > Len(LEVERAGE_LEVELS) THEN <<>>
    ELSE LET leverage == LEVERAGE_LEVELS[k]
             rest == MorphoTiers(market, collateral_symbol, tvl, borrow_apy,
                                 lltv, collateral_yield, k + 1)
         IN  IF MorphoTierTooHigh(leverage, MorphoSafeMaxLeverage(lltv)) THEN rest
             ELSE IF leverage = Fix(1, 0) THEN rest
             ELSE IF MorphoTierUnprofitable(
                        MorphoNetApy(collateral_yield, borrow_apy, leverage)) THEN rest
             ELSE <<MorphoOpportunity(market, collateral_symbol, tvl, borrow_apy,
                                      lltv, collateral_yield, leverage)>> \o rest

\* (state.get("borrowApy", 0) or 0) * 100
MorphoBorrowApy(state) == FixMul(OrZero(state.borrowApy), Fix(100, 0))

\* a variant that reads the supplied assets only
MorphoTvlFromSupply(state) == OrZero(state.supplyAssetsUsd)

\* state.get("sizeUsd", 0) or state.get("supplyAssetsUsd", 0) or 0
MorphoTvl(state) == FirstTruthy(state.sizeUsd, state.supplyAssetsUsd)

\* one iteration of the loop over the markets raises AttributeError: .upper()
\* on a null symbol, or .get() on a null state (market.get with a default
\* still returns the null that is stored under the key)
MorphoMarketRaises(market, today) ==
    /\ ~market.collateralAsset.null
    /\ ~market.loanAsset.null
    /\ \/ market.collateralAsset.symbol = None
       \/ market.loanAsset.symbol = None
       \/ /\ IsYieldBearing(Upper(market.collateralAsset.symbol), today)
          /\ IsBorrowStable(Upper(market.loanAsset.symbol))
          /\ market.state.null

\* the opportunities one iteration of the loop over the markets appends, for
\* a market on which it does not raise
MorphoMarketOpps(market, live, today) ==
    IF market.collateralAsset.null \/ market.loanAsset.null THEN <<>>
    ELSE LET collateral_symbol == Upper(market.collateralAsset.symbol)
             loan_symbol       == Upper(market.loanAsset.symbol)
             tvl               == MorphoTvl(market.state)
             borrow_apy        == MorphoBorrowApy(market.state)
             lltv              == MorphoParseLltv(market.lltv)
             collateral_yield  == GetCollateralYield(collateral_symbol, live)
         IN  IF ~IsYieldBearing(collateral_symbol, today) THEN <<>>
             ELSE IF ~IsBorrowStable(loan_symbol) THEN <<>>
             ELSE IF tvl < MIN_TVL_USD THEN <<>>
             ELSE IF borrow_apy > Fix(MAX_BORROW_APY, 0) \/ borrow_apy <= 0 THEN <<>>
             ELSE IF lltv <= 0 THEN <<>>
             ELSE IF collateral_yield <= 0 THEN <<>>
             ELSE MorphoTiers(market, collateral_symbol, tvl, borrow_apy, lltv,
                              collateral_yield, 1)

(***************************************************************************)
(* scrapers/pendle_loop.py: PendleLoopScraper                              *)
(***************************************************************************)
MIN_LIQUIDITY_USD == 500000

PENDLE_BORROW_STABLES ==
    << <<"U","S","D","C">>, <<"U","S","D","T">>, <<"D","A","I">>, <<"U","S","D","S">>, <<"F","R","A","X">>, <<"G","H","O">>, <<"P","Y","U","S","D">>,
       <<"U","S","D","T","B">>, <<"A","U","S","D">> >>

\* PendleLoopScraper._parse_lltv
PendleParseLltv(raw) == IF LltvUnparsable(raw) THEN Fix(0, 850) ELSE LltvValue(raw)

\* (state.get("borrowApy") or 0) * 100
PendleBorrowApy(state) == FixMul(OrZero(state.borrowApy), Fix(100, 0))

\* state.get("liquidityAssetsUsd") or state.get("supplyAssetsUsd") or 0
PendleLiquidity(state) == FirstTruthy(state.liquidityAssetsUsd, state.supplyAssetsUsd)

\* "collateral_sym.startswith("PT-") or "PT-" in collateral_sym"
IsPtCollateral(collateral_sym) ==
    StartsWith(collateral_sym, PTPrefix) \/ Contains(collateral_sym, PTPrefix)

\* the matching filters of one iteration of _find_best_borrow_markets, up to
\* the borrowable-stablecoin test, for non-null symbols
PendleMarketMatches(market, collateral_symbol, maturity_date) ==
    LET collateral_sym == Upper(market.collateralAsset.symbol)
        loan_sym       == Upper(market.loanAsset.symbol)
    IN  /\ IsPtCollateral(collateral_sym)
        /\ UnderlyingsMatch(ExtractUnderlyingFromPt(collateral_sym),
                            Upper(collateral_symbol))
        /\ MaturityAccepted(collateral_sym, maturity_date)
        /\ AnyPatternIn(PENDLE_BORROW_STABLES, loan_sym)

\* one iteration of the loop of _find_best_borrow_markets raises
\* AttributeError: .upper() on a null symbol, or .get() on a null state
PendleMarketRaises(market, collateral_symbol, maturity_date) ==
    /\ ~market.collateralAsset.null
    /\ ~market.loanAsset.null
    /\ \/ market.collateralAsset.symbol = None
       \/ market.loanAsset.symbol = None
       \/ /\ PendleMarketMatches(market, collateral_symbol, maturity_date)
          /\ market.state.null

\* "if liquidity < self.MIN_LIQUIDITY_USD: continue"
PendleTooIlliquid(liquidity) == liquidity < MIN_LIQUIDITY_USD

\* "if borrow_apy <= 0 or borrow_apy > 50: continue"
PendleBadBorrowRate(borrow_apy) == borrow_apy <= 0 \/ borrow_apy > Fix(50, 0)

\* what one iteration of the loop of _find_best_borrow_markets appends to
\* viable_markets, for a market on which it does not raise
PendleViableEntry(market, collateral_symbol, maturity_date) ==
    IF market.collateralAsset.null \/ market.loanAsset.null THEN <<>>
    ELSE IF ~PendleMarketMatches(market, collateral_symbol, maturity_date) THEN <<>>
    ELSE IF PendleTooIlliquid(PendleLiquidity(market.state)) THEN <<>>
    ELSE IF PendleBadBorrowRate(PendleBorrowApy(market.state)) THEN <<>>
    ELSE << [ loan_symbol |-> Upper(market.loanAsset.symbol),
              borrow_apy  |-> PendleBorrowApy(market.state),
              liquidity   |-> PendleLiquidity(market.state),
              lltv        |-> PendleParseLltv(market.lltv),
              market_id   |-> market.uniqueKey ] >>

\* list.sort(key=lambda m: m["borrow_apy"]): a stable sort, by insertion
RECURSIVE InsertByRate(_, _)
InsertByRate(sorted, e) ==
    IF sorted = <<>> THEN <<e>>
    ELSE IF e.borrow_apy < Head(sorted).borrow_apy THEN <<e>> \o sorted
    ELSE <<Head(sorted)>> \o InsertByRate(Tail(sorted), e)

\* a variant that returns the viable markets in the order they were found
InFoundOrder(ms) == ms

RECURSIVE SortByBorrowApy(_)
SortByBorrowApy(ms) ==
    IF ms = <<>> THEN <<>>
    ELSE InsertByRate(SortByBorrowApy(SubSeq(ms, 1, Len(ms) - 1)), ms[Len(ms)])

\* "borrow_markets[:3]"
TopMarkets(ms) == SubSeq(ms, 1, IF Len(ms) < 3 THEN Len(ms) ELSE 3)

\* "lltv = market["lltv"]; if lltv <= 0: lltv = 0.85"
PendleEffectiveLltv(lltv) == IF lltv <= 0 THEN Fix(0, 850) ELSE lltv

\* "max_leverage * 0.9", the ceiling a tier is compared with
PendleSafeMaxLeverage(lltv) ==
    QMul(TheoreticalMaxLeverage(lltv), QOf(Fix(0, 900)))

\* a variant of the ceiling test with the margin 0.6 of the Morpho loop
PendleTierAboveSixtyPercent(leverage, lltv) ==
    QLess(QMul(TheoreticalMaxLeverage(lltv), QOf(Fix(0, 600))), QOf(leverage))

\* "if leverage > max_leverage * 0.9: continue"
PendleTierTooHigh(leverage, lltv) ==
    QLess(PendleSafeMaxLeverage(lltv), QOf(leverage))

\* a variant of the net APY that charges the borrow rate on the whole position
PendleNetApyBorrowOnAll(pt_yield, borrow_rate, leverage) ==
    FixMul(pt_yield, leverage) - FixMul(borrow_rate, leverage)

\* "net_apy = pt_yield * leverage - borrow_rate * (leverage - 1)"
PendleNetApy(pt_yield, borrow_rate, leverage) ==
    FixMul(pt_yield, leverage) - FixMul(borrow_rate, leverage - Fix(1, 0))

\* "if net_apy <= 0: continue"
PendleTierUnprofitable(net_apy) == net_apy <= 0

\* the YieldOpportunity built for one tier of one borrow market
PendleOpportunity(pt, market, lltv, leverage) ==
    [ category   |-> "Pendle Looping",
      protocol   |-> "Pendle + Morpho",
      chain      |-> pt.chain,
      stablecoin |-> pt.stablecoin,
      apy        |-> PendleNetApy(pt.apy, market.borrow_apy, leverage),
      tvl        |-> market.liquidity,
      leverage   |-> leverage,
      supply_apy |-> pt.apy,
      borrow_apy |-> market.borrow_apy,
      maturity_date |-> pt.maturity_date,
      market_id  |-> market.market_id,
      lltv       |-> lltv * 100,
      safe_max_leverage |-> <<>> ]

\* the loop over the leverage tiers for one borrow market, from tier k on
RECURSIVE PendleTiers(_, _, _)
PendleTiers(pt, market, k) ==
    IF k > Len(LEVERAGE_LEVELS) THEN <<>>
    ELSE LET leverage == LEVERAGE_LEVELS[k]
             lltv     == PendleEffectiveLltv(market.lltv)
             rest     == PendleTiers(pt, market, k + 1)
         IN  IF leverage = Fix(1, 0) THEN rest
             ELSE IF PendleTierTooHigh(leverage, lltv) THEN rest
             ELSE IF PendleTierUnprofitable(
                        PendleNetApy(pt.apy, market.borrow_apy, leverage)) THEN rest
             ELSE <<PendleOpportunity(pt, market, lltv, leverage)>> \o rest

(***************************************************************************)
(* Inputs: market records as the Morpho GraphQL API returns them, the      *)
(* live yield table, and the PT opportunity of PendleFixedScraper          *)
(***************************************************************************)
Asset(sym) == [null |-> FALSE, symbol |-> sym]
NullAsset  == [null |-> TRUE, symbol |-> <<>>]

MarketState(borrow, size, supply, liquidity) ==
    [null |-> FALSE, borrowApy |-> borrow, sizeUsd |-> size,
     supplyAssetsUsd |-> supply, liquidityAssetsUsd |-> liquidity]
NullState ==
    [null |-> TRUE, borrowApy |-> <<>>, sizeUsd |-> <<>>,
     supplyAssetsUsd |-> <<>>, liquidityAssetsUsd |-> <<>>]

Lltv(enc, n) == [enc |-> enc, n |-> n]

Market(collateral, loan, state, lltv) ==
    [uniqueKey |-> 0, chain |-> "Ethereum", collateralAsset |-> collateral,
     loanAsset |-> loan, state |-> state, lltv |-> lltv]

\* raw LLTV values: unparsable, zero, negative, decimal and 1e18-scaled
LltvRaws ==
    { Lltv("null", 0), Lltv("bad", 0), Lltv("dec", 0), Lltv("dec", 0 - 500),
      Lltv("dec", 850), Lltv("wei", 0), Lltv("wei", 500), Lltv("wei", 550),
      Lltv("wei", 800), Lltv("wei", 850), Lltv("wei", 880), Lltv("wei", 950),
      Lltv("wei", 1000), Lltv("wei", 1500) }

\* raw borrowApy values (decimal fractions): null, 0, 4%, 6%, 50%, 60%
BorrowRaws == { <<>>, <<0>>, <<Fix(0, 40)>>, <<Fix(0, 60)>>, <<Fix(0, 500)>>,
                <<Fix(0, 600)>> }

\* (sizeUsd, supplyAssetsUsd) of the Morpho loop's markets
MorphoSizes == { <<<<>>, <<>>>>, <<<<>>, <<20000>>>>, <<<<0>>, <<20000>>>>,
                 <<<<5000>>, <<20000>>>>, <<<<10000>>, <<>>>> }

\* (liquidityAssetsUsd, supplyAssetsUsd) of the Pendle loop's markets
PendleLiquidities == { <<<<>>, <<>>>>, <<<<>>, <<600000>>>>, <<<<0>>, <<600000>>>>,
                       <<<<499999>>, <<600000>>>>, <<<<500000>>, <<>>>> }

GoodState == MarketState(<<Fix(0, 40)>>, <<2000000>>, <<1500000>>, <<600000>>)

SymSUSDe == <<"s","U","S","D","e">>
SymUSDC  == <<"U","S","D","C">>
SymPtSUSDe27Mar == <<"P","T","-","s","U","S","D","e","-","2","7","M","A","R","2","0","2","6">>

\* the well-formed markets that accompany the market under study
MorphoRefMarket == Market(Asset(SymSUSDe), Asset(SymUSDC), GoodState, Lltv("wei", 860))
PendleRefMarket ==
    Market(Asset(SymPtSUSDe27Mar), Asset(SymUSDC), GoodState, Lltv("wei", 860))

MorphoCollaterals ==
    { Asset(SymSUSDe), Asset(SymPtSUSDe27Mar), Asset(<<"R","L","P">>), Asset(<<"W","E","T","H">>),
      Asset(None), NullAsset }

LoanAssets == { Asset(SymUSDC), Asset(<<"W","E","T","H">>), Asset(None), NullAsset }

\* markets of the Morpho loop that vary the numbers
MorphoNumericMarkets ==
    { Market(Asset(SymSUSDe), Asset(SymUSDC),
             MarketState(b, sz[1], sz[2], <<>>), l) :
        b \in BorrowRaws, sz \in MorphoSizes, l \in LltvRaws }

\* markets of the Morpho loop that vary the structure of the record
MorphoStructuralMarkets ==
    { Market(c, l, st, Lltv("wei", 860)) :
        c \in MorphoCollaterals, l \in LoanAssets, st \in {NullState, GoodState} }

\* _live_yields: empty (the fallback table decides), or live rates
LiveYieldTables ==
    { <<>>, << <<<<"S","U","S","D","E">>, Fix(8, 0)>> >>, << <<<<"S","U","S","D","E">>, Fix(2, 0)>> >> }
LiveYieldsWithPt == << <<<<"P","T","-","S","U","S","D","E">>, Fix(8, 0)>>, <<<<"S","U","S","D","E">>, Fix(2, 0)>> >>

\* date.today(): before and after the maturity of the PT collateral
Todays == { Ordinal(2026, 1, 1), Ordinal(2026, 4, 1) }

PendleCollateralSymbols ==
    { SymPtSUSDe27Mar, <<"P","T","-","s","U","S","D","e","-","2","9","M","A","R","2","0","2","6">>, <<"P","T","-","s","U","S","D","e","-","3","0","M","A","R","2","0","2","6">>,
      <<"P","T","-","s","U","S","D","e","-","3","1","M","A","R","2","0","2","6">>, <<"P","T","-","s","U","S","D","e","-","1","0","A","P","R","2","0","2","6">>, <<"P","T","-","s","U","S","D","e","-","2","4","M","A","R","2","0","2","6">>,
      <<"P","T","-","s","U","S","D","e","-","2","3","M","A","R","2","0","2","6">>, <<"P","T","-","s","U","S","D","e">>, <<"P","T","-","U","S","D","e","-","2","7","M","A","R","2","0","2","6">>,
      <<"P","T","-","2","7","M","A","R","2","0","2","6">>, <<"P","T","-","_","s","U","S","D","e","-","2","7","M","A","R","2","0","2","6">>, SymSUSDe, None }

PendleNumericMarkets ==
    { Market(Asset(SymPtSUSDe27Mar), Asset(SymUSDC),
             MarketState(b, <<>>, lq[2], lq[1]), l) :
        b \in BorrowRaws, lq \in PendleLiquidities, l \in LltvRaws }

PendleStructuralMarkets ==
    { Market(c, l, st, Lltv("wei", 860)) :
        c \in {Asset(s) : s \in PendleCollateralSymbols} \cup {NullAsset},
        l \in LoanAssets, st \in {NullState, GoodState} }

\* the PT opportunity handed to _calculate_morpho_loop_yields
PtOpp(stablecoin, apy, maturity) ==
    [chain |-> "Ethereum", stablecoin |-> stablecoin, apy |-> apy,
     tvl |-> 3000000, maturity_date |-> maturity]
NoPtOpp == PtOpp(<<>>, 0, <<>>)

\* the datetimes of 2026-03-27, at every tick of the day
Maturities27Mar ==
    { <<Ordinal(2026, 3, 27) * TicksPerDay + t>> : t \in 0..(TicksPerDay - 1) }

PtYields == { Fix(2, 0), Fix(5, 0), Fix(8, 0) }

\* PendleFixedScraper keeps a symbol that contains "USD", and also the empty
\* symbol (the empty string is a substring of every target)
PtStablecoins == { SymSUSDe, <<"U","S","D","e">>, <<>> }

\* a batch of BatchLen markets: the market m under study at position pos, the
\* well-formed market ref everywhere else; uniqueKey is the position
Batch(m, ref, pos) ==
    [k \in 1..BatchLen |->
        [(IF k = pos THEN m ELSE ref) EXCEPT !.uniqueKey = k]]

MorphoScenarios ==
    { [scraper |-> "morpho", markets |-> Batch(m, MorphoRefMarket, pos),
       live |-> lv, today |-> Ordinal(2026, 1, 1), pt |-> NoPtOpp] :
        m \in MorphoNumericMarkets, lv \in LiveYieldTables, pos \in 1..BatchLen }
    \cup
    { [scraper |-> "morpho", markets |-> Batch(m, MorphoRefMarket, pos),
       live |-> LiveYieldsWithPt, today |-> td, pt |-> NoPtOpp] :
        m \in MorphoStructuralMarkets, td \in Todays, pos \in 1..BatchLen }

PendleScenarios ==
    { [scraper |-> "pendle", markets |-> Batch(m, PendleRefMarket, pos),
       live |-> <<>>, today |-> Ordinal(2026, 1, 1),
       pt |-> PtOpp(SymSUSDe, y, <<Ordinal(2026, 3, 27) * TicksPerDay>>)] :
        m \in PendleNumericMarkets, y \in PtYields, pos \in 1..BatchLen }
    \cup
    { [scraper |-> "pendle", markets |-> Batch(m, PendleRefMarket, pos),
       live |-> <<>>, today |-> Ordinal(2026, 1, 1),
       pt |-> PtOpp(sc, Fix(8, 0), mt)] :
        m \in PendleStructuralMarkets, sc \in PtStablecoins,
        mt \in Maturities27Mar \cup {<<>>}, pos \in 1..BatchLen }

(***************************************************************************)
(* The synthesis run as a state machine                                    *)
(***************************************************************************)
VARIABLES
    scraper,         \* which synthesizer runs: "morpho" or "pendle"
    markets,         \* the batch of market records
    live_yields,     \* MorphoLoopScraper._live_yields
    today,           \* date.today()
    pt_opp,          \* the PT opportunity of the Pendle loop
    i,               \* index of the next element of the running for loop
    viable_markets,  \* viable_markets / borrow_markets of the Pendle loop
    local_opps,      \* the list "opportunities" being built
    result,          \* what _fetch_data returns for this run
    pc,              \* "calc", "find", "yields", "done" or "raised"
    call,            \* a call of a function on its own: name, arguments, return
    cache,           \* the cache file of BaseScraper: <<>> when there is none
    clock,           \* datetime.now() in seconds, for the age of the cache
    fetch_data,      \* whether fetch has called _fetch_data, and how it ended
    app              \* the YieldTableApp of the interactive view

vars == <<scraper, markets, live_yields, today, pt_opp, i, viable_markets,
          local_opps, result, pc, call, cache, clock, fetch_data, app>>

\* what a synthesis run and a call of a function leave alone
inputs == <<scraper, markets, live_yields, today, pt_opp, cache, clock, fetch_data, app>>

\* outside a run of BaseScraper.fetch and outside the interactive view:
\* no cache file, the clock at 0, no view
NoFetchNoView ==
    /\ cache = <<>>
    /\ clock = 0
    /\ fetch_data = "not called"
    /\ app = <<>>

\* no normaliser function is called on its own during a synthesis run
NoCall == [fn |-> "none", args |-> <<>>, ret |-> "none"]

Init ==
    \E sc \in MorphoScenarios \cup PendleScenarios :
        /\ NoFetchNoView
        /\ scraper = sc.scraper
        /\ markets = sc.markets
        /\ live_yields = sc.live
        /\ today = sc.today
        /\ pt_opp = sc.pt
        /\ i = 1
        /\ viable_markets = <<>>
        /\ local_opps = <<>>
        /\ result = <<>>
        /\ pc = IF sc.scraper = "morpho" THEN "calc" ELSE "find"
        /\ call = NoCall

\* MorphoLoopScraper._calculate_loop_opportunities: one iteration
MorphoIterate ==
    /\ pc = "calc"
    /\ i <= Len(markets)
    /\ ~MorphoMarketRaises(markets[i], today)
    /\ local_opps' = local_opps \o MorphoMarketOpps(markets[i], live_yields, today)
    /\ i' = i + 1
    /\ UNCHANGED <<inputs, call, viable_markets, result, pc>>

\* an iteration raises: _fetch_data catches it ("except Exception: pass") and
\* returns its initial empty list
MorphoRaise ==
    /\ pc = "calc"
    /\ i <= Len(markets)
    /\ MorphoMarketRaises(markets[i], today)
    /\ result' = <<>>
    /\ pc' = "done"
    /\ UNCHANGED <<inputs, call, i, viable_markets, local_opps>>

\* the loop is over: _fetch_data returns the list
MorphoReturn ==
    /\ pc = "calc"
    /\ i > Len(markets)
    /\ result' = local_opps
    /\ pc' = "done"
    /\ UNCHANGED <<inputs, call, i, viable_markets, local_opps>>

\* PendleLoopScraper._find_best_borrow_markets: one iteration
PendleFindIterate ==
    /\ pc = "find"
    /\ i <= Len(markets)
    /\ ~PendleMarketRaises(markets[i], pt_opp.stablecoin, pt_opp.maturity_date)
    /\ viable_markets' = viable_markets \o
           PendleViableEntry(markets[i], pt_opp.stablecoin, pt_opp.maturity_date)
    /\ i' = i + 1
    /\ UNCHANGED <<inputs, call, local_opps, result, pc>>

\* an iteration raises: nothing in _calculate_morpho_loop_yields or
\* _fetch_data catches it, the run ends with the exception
PendleFindRaise ==
    /\ pc = "find"
    /\ i <= Len(markets)
    /\ PendleMarketRaises(markets[i], pt_opp.stablecoin, pt_opp.maturity_date)
    /\ pc' = "raised"
    /\ UNCHANGED <<inputs, call, i, viable_markets, local_opps, result>>

\* the end of _find_best_borrow_markets: sort by borrow rate and return
PendleSort ==
    /\ pc = "find"
    /\ i > Len(markets)
    /\ viable_markets' = SortByBorrowApy(viable_markets)
    /\ i' = 1
    /\ pc' = "yields"
    /\ UNCHANGED <<inputs, call, local_opps, result>>

\* _calculate_morpho_loop_yields: one borrow market of borrow_markets[:3]
PendleYieldsIterate ==
    /\ pc = "yields"
    /\ i <= Len(TopMarkets(viable_markets))
    /\ local_opps' = local_opps \o PendleTiers(pt_opp, viable_markets[i], 1)
    /\ i' = i + 1
    /\ UNCHANGED <<inputs, call, viable_markets, result, pc>>

\* _calculate_morpho_loop_yields returns, _fetch_data extends its list
PendleReturn ==
    /\ pc = "yields"
    /\ i > Len(TopMarkets(viable_markets))
    /\ result' = local_opps
    /\ pc' = "done"
    /\ UNCHANGED <<inputs, call, i, viable_markets, local_opps>>

Next ==
    \/ MorphoIterate
    \/ MorphoRaise
    \/ MorphoReturn
    \/ PendleFindIterate
    \/ PendleFindRaise
    \/ PendleSort
    \/ PendleYieldsIterate
    \/ PendleReturn

Spec == Init /\ [][Next]_vars

(***************************************************************************)
(* The functions of the symbol / maturity normaliser called on their own   *)
(***************************************************************************)
\* symbols and identities handed to the identity-equivalence checks
MatchSymbols ==
    { <<"s","U","S","D","e">>, <<"U","S","D","e">>, <<"s","U","S","D","a","i">>,
      <<"U","S","D","a","i">>, <<"_","s","U","S","D","e">>, <<"-","s","U","S","D","e">>,
      <<"-","s","U","S","D","a","i">>, <<"s","-","U","S","D","e">>, <<"R","E","U","S","D">>,
      <<"R","E","U","S","D","E">>, <<>>,
      <<"P","T","-","s","U","S","D","e","-","2","7","M","A","R","2","0","2","6">>,
      <<"P","T","-","U","S","D","e","-","2","7","M","A","R","2","0","2","6">>,
      <<"P","T","-","-","s","U","S","D","a","i","-","2","7","M","A","R","2","0","2","6">>,
      <<"P","T","-","R","E","U","S","D","E","-","2","5","J","U","N","2","0","2","6">> }

\* the arguments of a call, tagged: two symbols, or a collateral symbol and a
\* maturity
IdentityArgs == { <<"identities", a, b>> : a \in MatchSymbols, b \in MatchSymbols }
MaturityArgs ==
    { <<"maturities", sym, mt>> : sym \in PendleCollateralSymbols \ {None},
                                  mt \in Maturities27Mar \cup {<<>>} }

\* fixed-term symbols by their parts: PT-<id>-<date token><numeric suffix>
PtIds == { <<"S","U","S","D","E">>, <<"s","U","S","D","e">>, <<"R","E","U","S","D">>, <<"U","S","D","0">> }
PtDateTokens == { <<"2","7","M","A","R","2","0","2","5">>, <<"7","M","A","R","2","0","2","5">>, <<"2","5","J","U","N","2","0","2","6">> }
NumericSuffixes == { <<>>, <<"-","4">>, <<"-","1","7","5","0","8","9","6","0","2","3">> }
PtSymbolArgs ==
    { <<"pt symbol", id, d, sfx>> :
        id \in PtIds, d \in PtDateTokens, sfx \in NumericSuffixes }

\* the symbol whose parts are a
PtSymbolOf(a) == PTPrefix \o a[2] \o <<"-">> \o a[3] \o a[4]

\* symbols that embed <day><month letters><year> after a prefix, and symbols
\* that embed no such token
DatedPrefixes == { <<"P","T","-","R","E","U","S","D","-">>, <<"P","T","-","s","U","S","D","e">> }
DayDigits == { <<"2","5">>, <<"5">>, <<"2","9">>, <<"3","1">>, <<"0">> }
MonthLetters == { <<"J","U","N">>, <<"J","u","n">>, <<"F","E","B">>, <<"X","Y","Z">> }
YearDigits == { <<"2","0","2","6">>, <<"2","0","2","4">> }
UndatedSymbols == { <<"U","S","D","C">>, <<"P","T","-","s","U","S","D","e">>, <<>>, <<"2","5","J","U","N","2","6">>, <<"J","U","N","2","0","2","6">>, <<"P","T","-","R","E","U","S","D","-","2","5","-","J","U","N","-","2","0","2","6">> }
DatedSymbolArgs ==
    { <<"dated symbol", pre, d, m, y>> :
        pre \in DatedPrefixes, d \in DayDigits, m \in MonthLetters, y \in YearDigits }
    \cup { <<"undated symbol", sym>> : sym \in UndatedSymbols }

\* the symbol whose parts are a
DatedSymbolOf(a) ==
    IF a[1] = "undated symbol" THEN a[2] ELSE a[2] \o a[3] \o a[4] \o a[5]

InitNormalizer ==
    /\ NoFetchNoView
    /\ scraper = "none"
    /\ markets = <<>>
    /\ live_yields = <<>>
    /\ today = Ordinal(2026, 1, 1)
    /\ pt_opp = NoPtOpp
    /\ i = 1
    /\ viable_markets = <<>>
    /\ local_opps = <<>>
    /\ result = <<>>
    /\ pc = "idle"
    /\ \E args \in IdentityArgs \cup MaturityArgs \cup PtSymbolArgs \cup DatedSymbolArgs :
          call = [fn |-> "none", args |-> args, ret |-> "none"]

\* scrapers/pendle_loop.py: _underlyings_match(args)
CallUnderlyingsMatch ==
    /\ call.fn = "none" /\ call.args \in IdentityArgs
    /\ call' = [call EXCEPT !.fn = "_underlyings_match",
                            !.ret = UnderlyingsMatch(call.args[2], call.args[3])]
    /\ UNCHANGED <<inputs, i, viable_markets, local_opps, result, pc>>

\* streamlit_app.py: _underlyings_match(args)
CallStUnderlyingsMatch ==
    /\ call.fn = "none" /\ call.args \in IdentityArgs
    /\ call' = [call EXCEPT !.fn = "st._underlyings_match",
                            !.ret = StUnderlyingsMatch(call.args[2], call.args[3])]
    /\ UNCHANGED <<inputs, i, viable_markets, local_opps, result, pc>>

\* scrapers/pendle_loop.py: the maturity test of _find_best_borrow_markets
CallMaturityAccepted ==
    /\ call.fn = "none" /\ call.args \in MaturityArgs
    /\ call' = [call EXCEPT !.fn = "maturity_test",
                            !.ret = MaturityAccepted(Upper(call.args[2]), call.args[3])]
    /\ UNCHANGED <<inputs, i, viable_markets, local_opps, result, pc>>

\* streamlit_app.py: _maturities_match(args)
CallStMaturitiesMatch ==
    /\ call.fn = "none" /\ call.args \in MaturityArgs
    /\ call' = [call EXCEPT !.fn = "st._maturities_match",
                            !.ret = StMaturitiesMatch(call.args[2], call.args[3])]
    /\ UNCHANGED <<inputs, i, viable_markets, local_opps, result, pc>>

\* scrapers/pendle_loop.py: _extract_underlying_from_pt(symbol)
CallExtractUnderlyingFromPt ==
    /\ call.fn = "none" /\ call.args \in PtSymbolArgs
    /\ call' = [call EXCEPT !.fn = "_extract_underlying_from_pt",
                            !.ret = ExtractUnderlyingFromPt(PtSymbolOf(call.args))]
    /\ UNCHANGED <<inputs, i, viable_markets, local_opps, result, pc>>

\* streamlit_app.py: _extract_underlying(symbol)
CallStExtractUnderlying ==
    /\ call.fn = "none" /\ call.args \in PtSymbolArgs
    /\ call' = [call EXCEPT !.fn = "st._extract_underlying",
                            !.ret = StExtractUnderlying(PtSymbolOf(call.args))]
    /\ UNCHANGED <<inputs, i, viable_markets, local_opps, result, pc>>

\* scrapers/pendle_loop.py and streamlit_app.py (the same code):
\* _extract_maturity_from_symbol(symbol)
CallExtractMaturityFromSymbol ==
    /\ call.fn = "none" /\ call.args \in DatedSymbolArgs
    /\ call' = [call EXCEPT !.fn = "_extract_maturity_from_symbol",
                            !.ret = ExtractMaturityFromSymbol(DatedSymbolOf(call.args))]
    /\ UNCHANGED <<inputs, i, viable_markets, local_opps, result, pc>>

NextNormalizer ==
    \/ CallUnderlyingsMatch
    \/ CallStUnderlyingsMatch
    \/ CallMaturityAccepted
    \/ CallStMaturitiesMatch
    \/ CallExtractUnderlyingFromPt
    \/ CallStExtractUnderlying
    \/ CallExtractMaturityFromSymbol

SpecNormalizer == InitNormalizer /\ [][NextNormalizer]_vars

(***************************************************************************)
(* Properties                                                              *)
(***************************************************************************)
SeqToSet(s) == {s[k] : k \in 1..Len(s)}

\* every opportunity built so far in the run, returned or not
EmittedOpps == SeqToSet(local_opps) \cup SeqToSet(result)

\* the market record an opportunity was derived from
MarketOf(o) == markets[o.market_id]

\* the leverage tiers above 1.0 of config.LEVERAGE_LEVELS
LoopTiers == {l \in SeqToSet(LEVERAGE_LEVELS) : l > Fix(1, 0)}

\* the collateral factor of a market record parses to a number
CfParses(m) == ~LltvUnparsable(m.lltv)
\* ... and that number, as a fixed-point value
CfOf(m) == LltvValue(m.lltv)

\* the unleveraged collateral yield the run works with for opportunity o
CollateralYieldOf(o) ==
    IF scraper = "morpho"
    THEN GetCollateralYield(Upper(MarketOf(o).collateralAsset.symbol), live_yields)
    ELSE pt_opp.apy

\* the borrow rate of a market record, in percent
BorrowRateOf(m) == OrZero(m.state.borrowApy) * 100

\* leverage l is at most margin / (1 - cf), for 0 < cf < 1, in exact arithmetic
WithinMargin(l, cf, margin) == l * (Fix(1, 0) - cf) <= margin * Fix(1, 0)

\* C1: every emitted loop opportunity stores
\* apy = supply_apy * leverage - borrow_apy * (leverage - 1), and its
\* supply_apy and borrow_apy are the unleveraged collateral yield and borrow
\* rate of the market it was derived from.
C1_ApyIsLinearInLeverage ==
    \A o \in EmittedOpps :
        /\ o.apy * Fix(1, 0)
             = o.supply_apy * o.leverage - o.borrow_apy * (o.leverage - Fix(1, 0))
        /\ o.supply_apy = CollateralYieldOf(o)
        /\ o.borrow_apy = BorrowRateOf(MarketOf(o))

\* a returned opportunity at leverage 3 with legs 8.0 and 4.0: apy 16.0
C1_Witness ==
    /\ pc = "done"
    /\ \E o \in SeqToSet(result) :
          /\ o.leverage = Fix(3, 0)
          /\ o.supply_apy = Fix(8, 0)
          /\ o.borrow_apy = Fix(4, 0)
          /\ o.apy = Fix(16, 0)

\* C2 as claimed: every emitted loop opportunity of a market with parsed
\* collateral factor cf in (0,1) has leverage <= min(0.6 / (1 - cf), 5.0),
\* for the Morpho loop and for the Pendle loop.
C2_Original_LeverageWithinSixtyPercent ==
    \A o \in EmittedOpps :
        LET m == MarketOf(o)
        IN  (CfParses(m) /\ CfOf(m) > 0 /\ CfOf(m) < Fix(1, 0))
            => /\ WithinMargin(o.leverage, CfOf(m), Fix(0, 600))
               /\ o.leverage <= Fix(5, 0)

\* C2 amended: the Morpho loop keeps leverage <= min(0.6 / (1 - cf), 5.0) and
\* records a safe maximum leverage that never exceeds 5.0; the Pendle loop
\* keeps leverage <= 0.9 / (1 - cf) only (and <= 5.0, the highest tier).
C2_LeverageWithinSafeMaximum ==
    \A o \in EmittedOpps :
        LET m == MarketOf(o)
        IN  (CfParses(m) /\ CfOf(m) > 0 /\ CfOf(m) < Fix(1, 0))
            => /\ o.leverage <= Fix(5, 0)
               /\ scraper = "morpho" =>
                     /\ WithinMargin(o.leverage, CfOf(m), Fix(0, 600))
                     /\ ~QLess(<<5, 1>>, o.safe_max_leverage)
                     /\ CfOf(m) = Fix(0, 950) => o.safe_max_leverage = <<5, 1>>
               /\ scraper = "pendle" =>
                     WithinMargin(o.leverage, CfOf(m), Fix(0, 900))

\* the Morpho loop emits the 5.0 tier for cf = 0.95 with the ceiling clamped
\* to 5.0 (0.6 * 20 = 12 unclamped)
C2_Witness ==
    /\ scraper = "morpho"
    /\ \E o \in SeqToSet(result) :
          /\ CfOf(MarketOf(o)) = Fix(0, 950)
          /\ o.leverage = Fix(5, 0)
          /\ o.safe_max_leverage = <<5, 1>>

\* the run went through the whole batch and returned
RunCompleted == pc = "done" /\ (scraper = "morpho" => i > Len(markets))

\* the Morpho loop's filters before the collateral factor is looked at
MorphoPassesFilters(m) ==
    /\ ~m.collateralAsset.null /\ ~m.loanAsset.null
    /\ m.collateralAsset.symbol # None /\ m.loanAsset.symbol # None
    /\ IsYieldBearing(Upper(m.collateralAsset.symbol), today)
    /\ IsBorrowStable(Upper(m.loanAsset.symbol))
    /\ ~m.state.null
    /\ MorphoTvl(m.state) >= MIN_TVL_USD
    /\ BorrowRateOf(m) > 0 /\ BorrowRateOf(m) <= Fix(MAX_BORROW_APY, 0)
    /\ GetCollateralYield(Upper(m.collateralAsset.symbol), live_yields) > 0

\* market k went through every matching and liquidity filter of the run
PassesFilters(k) ==
    IF scraper = "morpho" THEN MorphoPassesFilters(markets[k])
    ELSE \E j \in 1..Len(TopMarkets(viable_markets)) : viable_markets[j].market_id = k

\* the unleveraged collateral yield the run works with for market k
CollateralYieldFor(k) ==
    IF scraper = "morpho"
    THEN GetCollateralYield(Upper(markets[k].collateralAsset.symbol), live_yields)
    ELSE pt_opp.apy

\* the returned opportunities of market k, and their leverage tiers
ReturnedFor(k) == {o \in SeqToSet(result) : o.market_id = k}
TiersReturnedFor(k) == {o.leverage : o \in ReturnedFor(k)}

\* the tiers above 1.0 with leverage <= min(margin / (1 - cf), 5.0) and a
\* positive net APY
TiersWithin(cy, b, cf, margin) ==
    {l \in LoopTiers : /\ WithinMargin(l, cf, margin)
                       /\ l <= Fix(5, 0)
                       /\ cy * l - b * (l - Fix(1, 0)) > 0}

\* market k is the scenario cy, b, cf (fixed-point) and passes the filters
IsScenario(k, cy, b, cf) ==
    /\ RunCompleted
    /\ PassesFilters(k)
    /\ CfParses(markets[k]) /\ CfOf(markets[k]) = cf
    /\ CollateralYieldFor(k) = cy
    /\ BorrowRateOf(markets[k]) = b

C4_EmittedApyIsPositive == \A o \in EmittedOpps : o.apy > 0

\* a run has returned in which a tier within the safe maximum broke even
\* (2.0 * 2 - 4.0 * 1 = 0) and was left out, next to tiers that were emitted
C4_Witness ==
    /\ RunCompleted
    /\ result # <<>>
    /\ \E k \in 1..Len(markets) :
          /\ PassesFilters(k)
          /\ CfParses(markets[k]) /\ CfOf(markets[k]) > 0
          /\ WithinMargin(Fix(2, 0), CfOf(markets[k]), Fix(0, 600))
          /\ CollateralYieldFor(k) = Fix(2, 0)
          /\ BorrowRateOf(markets[k]) = Fix(4, 0)
          /\ ReturnedFor(k) = {}

\* C5 as claimed: with collateral yield 5.0 and borrow rate 6.0 no opportunity
\* is emitted at any leverage tier.
C5_Original_NothingEmittedWhenBorrowExceedsYield ==
    \A o \in EmittedOpps : ~(o.supply_apy = Fix(5, 0) /\ o.borrow_apy = Fix(6, 0))

\* C5 amended: with collateral yield 5.0 and borrow rate 6.0 the net APY of
\* tier L is 5 L - 6 (L - 1) = 6 - L, positive for the tiers 2.0, 3.0 and 5.0:
\* every tier within the safe maximum leverage is emitted, with net APY 4.0,
\* 3.0 and 1.0.
C5_TiersEmittedWhenBorrowExceedsYield ==
    /\ \A o \in EmittedOpps :
          (o.supply_apy = Fix(5, 0) /\ o.borrow_apy = Fix(6, 0))
          => /\ o.apy = Fix(6, 0) - o.leverage
             /\ <<o.leverage, o.apy>> \in {<<Fix(2, 0), Fix(4, 0)>>,
                                           <<Fix(3, 0), Fix(3, 0)>>,
                                           <<Fix(5, 0), Fix(1, 0)>>}
    /\ RunCompleted =>
          \A k \in 1..Len(markets) :
              (/\ PassesFilters(k)
               /\ CollateralYieldFor(k) = Fix(5, 0)
               /\ BorrowRateOf(markets[k]) = Fix(6, 0)
               /\ CfParses(markets[k])
               /\ CfOf(markets[k]) > 0 /\ CfOf(markets[k]) < Fix(1, 0))
              => TiersReturnedFor(k)
                   = {l \in LoopTiers :
                        WithinMargin(l, CfOf(markets[k]),
                                     IF scraper = "morpho" THEN Fix(0, 600)
                                     ELSE Fix(0, 900))}

\* a run has returned all three tiers for collateral yield 5.0, borrow rate 6.0
C5_Witness ==
    /\ RunCompleted
    /\ \E k \in 1..Len(markets) :
          /\ CollateralYieldFor(k) = Fix(5, 0)
          /\ BorrowRateOf(markets[k]) = Fix(6, 0)
          /\ {<<o.leverage, o.apy>> : o \in ReturnedFor(k)}
               = {<<Fix(2, 0), Fix(4, 0)>>, <<Fix(3, 0), Fix(3, 0)>>,
                  <<Fix(5, 0), Fix(1, 0)>>}

\* the collateral factor of a market is unparsable, or parses to <= 0
CfUnusable(m) == LltvUnparsable(m.lltv) \/ LltvValue(m.lltv) <= 0

BeginsStaked(x) == StartsWith(Upper(x), <<"S">>)

\* C6 as claimed: _underlyings_match (scrapers/pendle_loop.py and the copy of
\* streamlit_app.py) never returns true when exactly one of its two identities
\* begins with the staked marker S, and returns true for identical identities.
C6_Original_StakedNeverMatchesUnstaked ==
    call.fn \in {"_underlyings_match", "st._underlyings_match"} =>
        /\ (BeginsStaked(call.args[2]) # BeginsStaked(call.args[3]))
           => call.ret = FALSE
        /\ (call.fn = "_underlyings_match" /\ call.args[2] = call.args[3])
           => call.ret = TRUE

\* market k has been through an iteration of _find_best_borrow_markets
PendleProcessed(k) ==
    /\ scraper = "pendle"
    /\ k \in 1..Len(markets)
    /\ pc \in {"yields", "done"} \/ (pc \in {"find", "raised"} /\ k < i)

\* market k is among the viable markets of the Pendle loop
InViable(k) == \E j \in 1..Len(viable_markets) : viable_markets[j].market_id = k

\* every filter of _find_best_borrow_markets other than the maturity test
PendleOtherFiltersPass(m) ==
    /\ ~m.collateralAsset.null /\ ~m.loanAsset.null
    /\ m.collateralAsset.symbol # None /\ m.loanAsset.symbol # None
    /\ IsPtCollateral(Upper(m.collateralAsset.symbol))
    /\ UnderlyingsMatch(ExtractUnderlyingFromPt(Upper(m.collateralAsset.symbol)),
                        Upper(pt_opp.stablecoin))
    /\ AnyPatternIn(PENDLE_BORROW_STABLES, Upper(m.loanAsset.symbol))
    /\ ~m.state.null
    /\ ~PendleTooIlliquid(PendleLiquidity(m.state))
    /\ ~PendleBadBorrowRate(PendleBorrowApy(m.state))

\* both datetimes are present and at most the given number of days apart
WithinDays(a, b, days) ==
    /\ a # <<>>
    /\ b # <<>>
    /\ Abs(a[1] - b[1]) <= days * TicksPerDay

\* C7 as claimed: _find_best_borrow_markets accepts a market on maturity
\* exactly when the collateral's maturity and the maturity parsed from the
\* market's collateral symbol are both present and at most 3 days apart.
C7_Original_AcceptedIffWithinThreeDays ==
    \A k \in 1..Len(markets) :
        (PendleProcessed(k) /\ PendleOtherFiltersPass(markets[k]))
        => (InViable(k)
            <=> WithinDays(pt_opp.maturity_date,
                           ExtractMaturityFromSymbol(Upper(markets[k].collateralAsset.symbol)),
                           3))

\* C8 as claimed: the Pendle loop never pairs a collateral source with a
\* market when the identity of either side is empty.
C8_Original_EmptyIdentityNeverPaired ==
    scraper = "pendle" =>
        \A k \in 1..Len(markets) :
            (InViable(k) \/ \E o \in EmittedOpps : o.market_id = k)
            => /\ ExtractUnderlyingFromPt(Upper(markets[k].collateralAsset.symbol)) # <<>>
               /\ Upper(pt_opp.stablecoin) # <<>>

\* what the run owes market k: nothing when its iteration raises, otherwise
\* the opportunities of its tiers
OwedTo(k) ==
    IF scraper = "morpho"
    THEN IF MorphoMarketRaises(markets[k], today) THEN {}
         ELSE SeqToSet(MorphoMarketOpps(markets[k], live_yields, today))
    ELSE IF PendleMarketRaises(markets[k], pt_opp.stablecoin, pt_opp.maturity_date)
         THEN {}
         ELSE LET e == PendleViableEntry(markets[k], pt_opp.stablecoin,
                                         pt_opp.maturity_date)
              IN  IF e = <<>> THEN {} ELSE SeqToSet(PendleTiers(pt_opp, e[1], 1))

\* C9 as claimed: a malformed record excludes only itself: the run does not
\* end with an exception, and what it returns holds the opportunities of every
\* well-formed record of the batch.
C9_Original_MalformedRecordOnlyExcludesItself ==
    pc \in {"done", "raised"} =>
        /\ pc = "done"
        /\ \A k \in 1..Len(markets) : OwedTo(k) \subseteq SeqToSet(result)


(***************************************************************************)
(* Borrow-market selection: several viable markets for one PT collateral,  *)
(* handed to PendleLoopScraper in every order                               *)
(***************************************************************************)
\* the number of Morpho markets with the same PT collateral
OrderLen == 4

\* borrowApy of a market of the pool: 4% or 6%
OrderRates == { Fix(0, 40), Fix(0, 60) }

\* the k-th market of the pool: its own uniqueKey and available liquidity,
\* borrowing at rate b; an illiquid one fails the MIN_LIQUIDITY_USD filter
OrderMarket(k, b, liquid) ==
    [ Market(Asset(SymPtSUSDe27Mar), Asset(SymUSDC),
             MarketState(<<b>>, <<>>, <<>>,
                         <<(IF liquid THEN 600000 ELSE 400000) + k>>),
             Lltv("wei", 860))
      EXCEPT !.uniqueKey = k ]

\* the pools: one rate per market, the first market liquid or not
OrderPools ==
    { [k \in 1..OrderLen |-> OrderMarket(k, rates[k], k > 1 \/ liquid)] :
        rates \in [1..OrderLen -> OrderRates], liquid \in BOOLEAN }

\* the market list of the API response: a pool in some order
OrderBatches ==
    { [k \in 1..OrderLen |-> pool[p[k]]] :
        pool \in OrderPools, p \in Permutations(1..OrderLen) }

OrderPtOpp == PtOpp(SymSUSDe, Fix(8, 0), Midnight(2026, 3, 27))

InitOrder ==
    /\ NoFetchNoView
    /\ scraper = "pendle"
    /\ markets \in OrderBatches
    /\ live_yields = <<>>
    /\ today = Ordinal(2026, 1, 1)
    /\ pt_opp = OrderPtOpp
    /\ i = 1
    /\ viable_markets = <<>>
    /\ local_opps = <<>>
    /\ result = <<>>
    /\ pc = "find"
    /\ call = NoCall

\* the markets of the pool are well formed: no iteration raises
NextOrder ==
    \/ PendleFindIterate
    \/ PendleSort
    \/ PendleYieldsIterate
    \/ PendleReturn

SpecOrder == InitOrder /\ [][NextOrder]_vars

\* _find_best_borrow_markets as a function of the market list
RECURSIVE FindBestBorrowMarkets(_, _, _, _)
FindBestBorrowMarkets(ms, underlying, maturity, k) ==
    IF k > Len(ms) THEN <<>>
    ELSE PendleViableEntry(ms[k], underlying, maturity)
             \o FindBestBorrowMarkets(ms, underlying, maturity, k + 1)

\* the opportunities of the borrow markets bs, from the k-th on
RECURSIVE LoopYieldsFrom(_, _, _)
LoopYieldsFrom(pt, bs, k) ==
    IF k > Len(bs) THEN <<>>
    ELSE PendleTiers(pt, bs[k], 1) \o LoopYieldsFrom(pt, bs, k + 1)

\* _calculate_morpho_loop_yields as a function of the market list
CalculateMorphoLoopYields(pt, ms) ==
    LoopYieldsFrom(pt,
        TopMarkets(SortByBorrowApy(
            FindBestBorrowMarkets(ms, pt.stablecoin, pt.maturity_date, 1))), 1)

\* the market list ms in the order p
Reordered(ms, p) == [k \in 1..Len(ms) |-> ms[p[k]]]

\* the markets of viable_markets from which the run produced opportunities,
\* and those it left out
UsedIds == { o.market_id : o \in SeqToSet(result) }
ViableSet == SeqToSet(viable_markets)
UsedMarkets == { v \in ViableSet : v.market_id \in UsedIds }
LeftOutMarkets == ViableSet \ UsedMarkets

\* C11 (as stated): a completed run emits the same set of opportunities as
\* the run on any reordering of the same market list would
C11_Original_EmittedSetIndependentOfOrder ==
    (scraper = "pendle" /\ pc = "done") =>
        \A p \in Permutations(1..Len(markets)) :
            SeqToSet(CalculateMorphoLoopYields(pt_opp, Reordered(markets, p)))
                = SeqToSet(result)

\* every viable market yields an opportunity at some leverage tier
AllViableProfitable == \A v \in ViableSet : PendleTiers(pt_opp, v, 1) # <<>>

AvailableLiquidityOf(m) ==
    IF m.state.liquidityAssetsUsd # <<>> THEN m.state.liquidityAssetsUsd[1]
    ELSE OrZero(m.state.supplyAssetsUsd)

\* the total size a market reports to the Morpho loop: its sizeUsd or, when
\* that is missing or 0, its supplyAssetsUsd
TotalSizeOf(m) == FirstTruthy(m.state.sizeUsd, m.state.supplyAssetsUsd)

\* C13 (as stated): no emitted loop opportunity derives from a market whose
\* liquidity (Pendle loop, minimum 500,000) or TVL (Morpho loop, minimum
\* 10,000) is below the module's minimum, or whose borrow rate is <= 0 or
\* above 50%
C13_Original_NoOpportunityFromIlliquidMarket ==
    \A o \in EmittedOpps :
        LET m == MarketOf(o)
        IN  /\ scraper = "pendle" => AvailableLiquidityOf(m) >= MIN_LIQUIDITY_USD
            /\ scraper = "morpho" => TotalSizeOf(m) >= MIN_TVL_USD
            /\ BorrowRateOf(m) > 0
            /\ BorrowRateOf(m) <= Fix(50, 0)

\* the part of C13 that holds: the borrow rate of the market of every emitted
\* opportunity is in (0, 50], the Morpho loop's market has a total size of at
\* least 10,000, and the Pendle loop's market has at least 500,000 of
\* liquidity unless it reports an available liquidity of 0
C13_FiltersApartFromZeroLiquidity ==
    \A o \in EmittedOpps :
        LET m == MarketOf(o)
        IN  /\ scraper = "pendle" =>
                  \/ AvailableLiquidityOf(m) >= MIN_LIQUIDITY_USD
                  \/ /\ m.state.liquidityAssetsUsd = <<0>>
                     /\ OrZero(m.state.supplyAssetsUsd) >= MIN_LIQUIDITY_USD
            /\ scraper = "morpho" => TotalSizeOf(m) >= MIN_TVL_USD
            /\ BorrowRateOf(m) > 0
            /\ BorrowRateOf(m) <= Fix(50, 0)

\* an optional number is reported and is not 0
Reported(opt) == opt # <<>> /\ opt # <<0>>

EULER_MIN_NET_APY == Fix(0, 500)
EULER_MAX_BORROW_APY == Fix(50, 0)
EULER_MAX_SUPPLY_APY == Fix(25, 0)
EULER_MIN_TVL == 10000

\* a borrow vault with one accepted collateral vault: the borrow APY and the
\* collateral's supply APY in percent (after the division by APY_SCALE), and
\* the vault's totalBorrows + cash in whole tokens
EulerVault(borrow_apy, tvl, supply_apy) ==
    [borrow_apy |-> borrow_apy, tvl |-> tvl, supply_apy |-> supply_apy]

\* a variant of the tier test that only applies the 5.0 cap
EulerTierAboveCap(leverage) == leverage > Fix(5, 0)

\* "if leverage <= 1.0 or leverage > 5.0: continue"
EulerTierSkipped(leverage) == leverage <= Fix(1, 0) \/ leverage > Fix(5, 0)

\* net_apy = supply_apy * leverage - borrow_apy * (leverage - 1)
EulerNetApy(supply_apy, borrow_apy, leverage) ==
    (supply_apy * leverage - borrow_apy * (leverage - Fix(1, 0))) \div Fix(1, 0)

EulerOpportunity(vault, key, leverage) ==
    [ category   |-> "Euler Borrow/Lend Loop",
      protocol   |-> "Euler",
      chain      |-> "Ethereum",
      apy        |-> EulerNetApy(vault.supply_apy, vault.borrow_apy, leverage),
      tvl        |-> vault.tvl,
      leverage   |-> leverage,
      supply_apy |-> vault.supply_apy,
      borrow_apy |-> vault.borrow_apy,
      market_id  |-> key ]

\* the loop over the leverage tiers for one collateral vault, from tier k on
RECURSIVE EulerTiers(_, _, _)
EulerTiers(vault, key, k) ==
    IF k > Len(LEVERAGE_LEVELS) THEN <<>>
    ELSE LET leverage == LEVERAGE_LEVELS[k]
             rest     == EulerTiers(vault, key, k + 1)
         IN  IF EulerTierSkipped(leverage) THEN rest
             ELSE IF EulerNetApy(vault.supply_apy, vault.borrow_apy, leverage)
                        < EULER_MIN_NET_APY THEN rest
             ELSE <<EulerOpportunity(vault, key, leverage)>> \o rest

\* one iteration of the loop over the vaults of _find_cross_collateral_loops
EulerVaultOpps(vault, key) ==
    IF vault.borrow_apy <= 0 \/ vault.borrow_apy > EULER_MAX_BORROW_APY THEN <<>>
    ELSE IF vault.tvl < EULER_MIN_TVL THEN <<>>
    ELSE IF vault.supply_apy <= 0 \/ vault.supply_apy > EULER_MAX_SUPPLY_APY THEN <<>>
    ELSE EulerTiers(vault, key, 1)

\* borrow APYs: 0, 4%, 6%, 60%; TVLs around MIN_TVL; supply APYs: 0, 0.4%
\* (below MIN_NET_APY unleveraged), 5%, 8%, 30%
EulerVaults ==
    { EulerVault(b, t, s) :
        b \in { 0, Fix(4, 0), Fix(6, 0), Fix(60, 0) },
        t \in { 9999, 20000 },
        s \in { 0, Fix(0, 400), Fix(5, 0), Fix(8, 0), Fix(30, 0) } }

InitEuler ==
    /\ NoFetchNoView
    /\ scraper = "euler"
    /\ markets \in [1..BatchLen -> EulerVaults]
    /\ live_yields = <<>>
    /\ today = Ordinal(2026, 1, 1)
    /\ pt_opp = NoPtOpp
    /\ i = 1
    /\ viable_markets = <<>>
    /\ local_opps = <<>>
    /\ result = <<>>
    /\ pc = "vaults"
    /\ call = NoCall

\* EulerLoopScraper._find_cross_collateral_loops: one vault
EulerIterate ==
    /\ pc = "vaults"
    /\ i <= Len(markets)
    /\ local_opps' = local_opps \o EulerVaultOpps(markets[i], i)
    /\ i' = i + 1
    /\ UNCHANGED <<inputs, call, viable_markets, result, pc>>

\* _find_cross_collateral_loops returns, _fetch_data extends its list
EulerReturn ==
    /\ pc = "vaults"
    /\ i > Len(markets)
    /\ result' = local_opps
    /\ pc' = "done"
    /\ UNCHANGED <<inputs, call, i, viable_markets, local_opps>>

\* the three loop synthesizers that iterate config.LEVERAGE_LEVELS
InitLoops == Init \/ InitEuler

NextLoops ==
    \/ Next
    \/ EulerIterate
    \/ EulerReturn

SpecLoops == InitLoops /\ [][NextLoops]_vars

\* C15: every opportunity emitted by the Morpho, Pendle and Euler loop
\* synthesizers has a leverage strictly greater than 1.0 that is a tier of
\* LEVERAGE_LEVELS, although LEVERAGE_LEVELS contains 1.0
C15_LeverageAboveOneFromTierList ==
    /\ Fix(1, 0) \in SeqToSet(LEVERAGE_LEVELS)
    /\ \A o \in EmittedOpps :
          /\ o.leverage > Fix(1, 0)
          /\ o.leverage \in SeqToSet(LEVERAGE_LEVELS)

\* the Euler loop returned opportunities for a vault whose unleveraged supply
\* APY (8%) passes every filter of the 1.0 tier but the leverage test
C15_Witness ==
    /\ scraper = "euler" /\ pc = "done"
    /\ \E o \in SeqToSet(result) :
          /\ o.supply_apy = Fix(8, 0)
          /\ o.supply_apy >= EULER_MIN_NET_APY
          /\ o.leverage = Fix(2, 0)
    /\ \A o \in SeqToSet(result) : o.leverage # Fix(1, 0)

\* C16 (as stated): _extract_underlying_from_pt and the _extract_underlying of
\* streamlit_app.py, applied to PT-<id>-<d><MON><yyyy> with or without a
\* trailing numeric suffix, return the upper-cased <id>
C16_Original_ReturnsUpperCasedId ==
    call.fn \in {"_extract_underlying_from_pt", "st._extract_underlying"} =>
        call.ret = Upper(call.args[2])

\* the part of C16 that holds: without a numeric suffix both functions return
\* the upper-cased <id>
C16_ReturnsUpperCasedIdWithoutSuffix ==
    (/\ call.fn \in {"_extract_underlying_from_pt", "st._extract_underlying"}
     /\ call.args[4] = <<>>)
    => call.ret = Upper(call.args[2])

\* C17: _extract_maturity_from_symbol returns the date of the
\* <day><month letters><year> token of the symbol when the letters are a month
\* abbreviation (in any case) and the day exists in that month of that year
\* (30 days in June, 28 in February, 29 in February of 2024), and returns
\* None when the letters are no month, when the day does not exist, and when
\* the symbol has no such token; PT-REUSD-25JUN2026 gives 2026-06-25
C17_MaturityParsedOrNone ==
    call.fn = "_extract_maturity_from_symbol" =>
        IF call.args[1] = "undated symbol" THEN call.ret = <<>>
        ELSE LET day    == DigitsToInt(call.args[3])
                 year   == DigitsToInt(call.args[5])
                 letters == Upper(call.args[4])
                 month  == IF letters = <<"J","U","N">> THEN 6
                           ELSE IF letters = <<"F","E","B">> THEN 2 ELSE 0
                 days   == IF month = 6 THEN 30
                           ELSE IF month = 2 THEN (IF year = 2024 THEN 29 ELSE 28)
                           ELSE 0
             IN  IF day >= 1 /\ day <= days
                 THEN call.ret = Midnight(year, month, day)
                 ELSE call.ret = <<>>

\* the call on PT-REUSD-31FEB2026, a day that February does not have, has
\* returned None
C17_Witness ==
    /\ call.fn = "_extract_maturity_from_symbol"
    /\ DatedSymbolOf(call.args) = <<"P","T","-","R","E","U","S","D","-","3","1","F","E","B","2","0","2","6">>
    /\ call.ret = <<>>

\* C18 (as stated): _underlyings_match (scrapers/pendle_loop.py and the copy
\* of streamlit_app.py, which first extracts the underlying of its first
\* argument) returns true only when the two underlyings are equal once
\* upper-cased and stripped of "-" and "_"
C18_Original_MatchOnlyWhenEqualNormalized ==
    /\ (call.fn = "_underlyings_match" /\ call.ret = TRUE) =>
           NormalizeSeparators(Upper(call.args[2]))
               = NormalizeSeparators(Upper(call.args[3]))
    /\ (call.fn = "st._underlyings_match" /\ call.ret = TRUE) =>
           NormalizeSeparators(StExtractUnderlying(call.args[2]))
               = NormalizeSeparators(Upper(call.args[3]))

\* the part of C18 that holds: the _underlyings_match of
\* scrapers/pendle_loop.py returns true only for underlyings that are equal
\* once normalized
C18_PendleLoopMatchOnlyWhenEqualNormalized ==
    (call.fn = "_underlyings_match" /\ call.ret = TRUE) =>
        NormalizeSeparators(Upper(call.args[2]))
            = NormalizeSeparators(Upper(call.args[3]))

(***************************************************************************)
(* utils/risk.py: RiskAssessor                                             *)
(***************************************************************************)
\* the lower-case letter of each upper-case letter
LowerOf == [c \in UpperSet |->
               LowerChars[CHOOSE k \in 1..Len(UpperChars) : UpperChars[k] = c]]

\* str.lower()
Lower(s) == [k \in 1..Len(s) |-> IF s[k] \in UpperSet THEN LowerOf[s[k]] ELSE s[k]]

\* PROTOCOL_MATURITY, in the order of the dict
PROTOCOL_MATURITY ==
    << <<<<"a","a","v","e">>, 1>>, <<<<"m","o","r","p","h","o">>, 2>>, <<<<"e","u","l","e","r">>, 2>>, <<<<"p","e","n","d","l","e">>, 2>>,
       <<<<"c","o","m","p","o","u","n","d">>, 1>>, <<<<"s","i","l","o">>, 3>>, <<<<"m","e","r","k","l">>, 2>>, <<<<"b","e","e","f","y">>, 2>>,
       <<<<"y","e","a","r","n">>, 1>>, <<<<"m","i","d","a","s">>, 3>>, <<<<"s","p","e","c","t","r","a">>, 3>>, <<<<"g","e","a","r","b","o","x">>, 2>>,
       <<<<"u","p","s","h","i","f","t">>, 3>>, <<<<"i","p","o","r">>, 3>>, <<<<"t","o","w","n","s","q","u","a","r","e">>, 3>>,
       <<<<"c","u","r","v","a","n","c","e">>, 3>>, <<<<"a","c","c","o","u","n","t","a","b","l","e">>, 3>>, <<<<"s","t","a","k","e","d","a","o">>, 2>>,
       <<<<"c","o","n","v","e","x">>, 2>>, <<<<"h","y","p","e","r","i","o","n">>, 3>>, <<<<"y","o">>, 3>>, <<<<"y","i","e","l","d","f","i">>, 3>>,
       <<<<"p","l","o","u","t","o","s">>, 3>>, <<<<"k","a","m","i","n","o">>, 2>>, <<<<"j","u","p","i","t","e","r">>, 2>>, <<<<"l","a","g","o","o","n">>, 3>>,
       <<<<"n","e","s","t"," ","c","r","e","d","i","t">>, 3>> >>

CHAIN_RISK ==
    << <<<<"e","t","h","e","r","e","u","m">>, 1>>, <<<<"a","r","b","i","t","r","u","m">>, 1>>, <<<<"b","a","s","e">>, 1>>, <<<<"o","p","t","i","m","i","s","m">>, 1>>,
       <<<<"p","o","l","y","g","o","n">>, 1>>, <<<<"a","v","a","l","a","n","c","h","e">>, 2>>, <<<<"b","s","c">>, 2>>, <<<<"s","o","l","a","n","a">>, 2>>,
       <<<<"s","e","i">>, 3>>, <<<<"m","o","n","a","d">>, 4>>, <<<<"p","l","a","s","m","a">>, 4>>, <<<<"h","y","p","e","r","e","v","m">>, 4>>,
       <<<<"e","t","h","e","r","l","i","n","k">>, 4>>, <<<<"p","l","u","m","e">>, 4>>, <<<<"k","a","t","a","n","a">>, 4>>, <<<<"t","a","c">>, 4>>,
       <<<<"u","n","i","c","h","a","i","n">>, 3>>, <<<<"h","e","m","i">>, 4>>, <<<<"i","n","k">>, 4>>, <<<<"w","o","r","l","d"," ","c","h","a","i","n">>, 3>>,
       <<<<"l","i","n","e","a">>, 3>>, <<<<"m","a","n","t","l","e">>, 3>>, <<<<"s","o","n","i","e","u","m">>, 4>>, <<<<"r","o","o","t","s","t","o","c","k">>, 3>>,
       <<<<"a","p","t","o","s">>, 4>> >>

STRATEGY_RISK ==
    << <<<<"s","i","m","p","l","e","_","l","e","n","d">>, 1>>, <<<<"l","e","n","d">>, 1>>, <<<<"l","o","o","p">>, 3>>,
       <<<<"p","e","n","d","l","e","_","f","i","x","e","d">>, 2>>, <<<<"p","e","n","d","l","e","_","l","o","o","p">>, 4>>, <<<<"r","e","w","a","r","d">>, 2>>,
       <<<<"y","i","e","l","d","_","b","e","a","r","i","n","g">>, 2>>, <<<<"v","a","u","l","t">>, 2>>, <<<<"f","i","x","e","d">>, 2>> >>

\* cls.STRATEGY_RISK.get(strategy_type.lower(), 2) * 10
StrategyPoints(strategy_type) ==
    LET key == Lower(strategy_type)
    IN  (IF HasKey(STRATEGY_RISK, key) THEN Lookup(STRATEGY_RISK, key) ELSE 2)
            * Fix(10, 0)

\* a variant of the leverage risk that replaces the linear part by the first
\* step from leverage 5 on
LeverageStepOnly(leverage) ==
    IF leverage >= Fix(5, 0) THEN Fix(20, 0)
    ELSE IF leverage > Fix(1, 0) THEN (leverage - Fix(1, 0)) * 15
    ELSE 0

\* "if leverage > 1: score += (leverage - 1) * 15" and the three steps
LeveragePoints(leverage) ==
    IF leverage > Fix(1, 0)
    THEN (leverage - Fix(1, 0)) * 15
         + (IF leverage >= Fix(5, 0) THEN Fix(20, 0) ELSE 0)
         + (IF leverage >= Fix(7, 0) THEN Fix(20, 0) ELSE 0)
         + (IF leverage >= Fix(10, 0) THEN Fix(30, 0) ELSE 0)
    ELSE 0

\* a variant of the for/else that adds nothing for an unknown protocol
ProtocolPointsNeutral(protocol) ==
    LET protocol_lower == Lower(protocol)
        hit == FirstIndex({k \in 1..Len(PROTOCOL_MATURITY) :
                              Contains(protocol_lower, PROTOCOL_MATURITY[k][1])})
    IN  IF hit # 0 THEN PROTOCOL_MATURITY[hit][2] * Fix(5, 0) ELSE 0

\* the for/else over PROTOCOL_MATURITY: the first key that is a substring of
\* the lower-cased protocol name, 15 points when there is none
ProtocolPoints(protocol) ==
    LET protocol_lower == Lower(protocol)
        hit == FirstIndex({k \in 1..Len(PROTOCOL_MATURITY) :
                              Contains(protocol_lower, PROTOCOL_MATURITY[k][1])})
    IN  IF hit # 0 THEN PROTOCOL_MATURITY[hit][2] * Fix(5, 0) ELSE Fix(15, 0)

\* a variant that adds nothing for a chain absent from CHAIN_RISK
ChainPointsNeutral(chain) ==
    LET chain_lower == Lower(chain)
    IN  (IF HasKey(CHAIN_RISK, chain_lower) THEN Lookup(CHAIN_RISK, chain_lower)
         ELSE 0) * Fix(5, 0)

\* cls.CHAIN_RISK.get(chain_lower, 4) * 5
ChainPoints(chain) ==
    LET chain_lower == Lower(chain)
    IN  (IF HasKey(CHAIN_RISK, chain_lower) THEN Lookup(CHAIN_RISK, chain_lower)
         ELSE 4) * Fix(5, 0)

\* a variant that counts a started day as a whole day
MaturityPointsDaysRoundedUp(maturity_date, now) ==
    IF maturity_date = <<>> THEN 0
    ELSE LET days_to_maturity ==
                 (maturity_date[1] - now[1] + TicksPerDay - 1) \div TicksPerDay
         IN  IF days_to_maturity < 7 THEN Fix(30, 0)
             ELSE IF days_to_maturity < 30 THEN Fix(15, 0)
             ELSE IF days_to_maturity < 90 THEN Fix(5, 0)
             ELSE 0

\* a variant whose thresholds are those of the maturity warning: 7, 14, 30
MaturityPointsAsWarning(maturity_date, now) ==
    IF maturity_date = <<>> THEN 0
    ELSE LET days_to_maturity == DeltaDays(maturity_date, now)
         IN  IF days_to_maturity < 7 THEN Fix(30, 0)
             ELSE IF days_to_maturity < 14 THEN Fix(15, 0)
             ELSE IF days_to_maturity < 30 THEN Fix(5, 0)
             ELSE 0

\* the maturity date risk: (maturity_date - now).days against 7, 30 and 90
MaturityPoints(maturity_date, now) ==
    IF maturity_date = <<>> THEN 0
    ELSE LET days_to_maturity == DeltaDays(maturity_date, now)
         IN  IF days_to_maturity < 7 THEN Fix(30, 0)
             ELSE IF days_to_maturity < 30 THEN Fix(15, 0)
             ELSE IF days_to_maturity < 90 THEN Fix(5, 0)
             ELSE 0

\* a variant that adds nothing for a high APY
ApyIgnored(apy) == 0

\* "Suspiciously high APY"
ApyPoints(apy) ==
    IF apy > Fix(100, 0) THEN Fix(20, 0)
    ELSE IF apy > Fix(50, 0) THEN Fix(10, 0)
    ELSE IF apy > Fix(30, 0) THEN Fix(5, 0)
    ELSE 0

\* a variant of the conversion whose upper bounds are inclusive
RiskCategoryInclusive(score) ==
    IF score <= Fix(25, 0) THEN "Low"
    ELSE IF score <= Fix(50, 0) THEN "Medium"
    ELSE IF score <= Fix(75, 0) THEN "High"
    ELSE "Very High"

\* "Convert score to category"
RiskCategory(score) ==
    IF score < Fix(25, 0) THEN "Low"
    ELSE IF score < Fix(50, 0) THEN "Medium"
    ELSE IF score < Fix(75, 0) THEN "High"
    ELSE "Very High"

\* RiskAssessor.calculate_risk_score, with the reading of datetime.now()
CalculateRiskScore(strategy_type, leverage, protocol, chain, maturity_date, apy, now) ==
    RiskCategory(StrategyPoints(strategy_type) + LeveragePoints(leverage)
                 + ProtocolPoints(protocol) + ChainPoints(chain)
                 + MaturityPoints(maturity_date, now) + ApyPoints(apy))

\* arguments of calculate_risk_score
RiskStrategies == { <<"l","e","n","d">>, <<"l","o","o","p">>, <<"P","e","n","d","l","e","_","L","o","o","p">>, <<"a","r","b","i","t","r","a","g","e">> }
RiskLeverages ==
    { Fix(0, 500), Fix(1, 0), Fix(1, 334), Fix(2, 0), Fix(2, 999), Fix(3, 0), Fix(4, 999),
      Fix(5, 0), Fix(6, 999), Fix(7, 0), Fix(9, 999), Fix(10, 0), Fix(12, 0) }
RiskProtocols == { <<"F","l","u","i","d">>, <<"A","a","v","e">>, <<"P","e","n","d","l","e"," ","+"," ","S","i","l","o">>, <<"S","i","l","o">>, <<>> }
RiskChains == { <<"E","t","h","e","r","e","u","m">>, <<"A","v","a","l","a","n","c","h","e">>, <<"M","a","r","s">> }
RiskApys == { 0, Fix(30, 0), Fix(30, 1), Fix(50, 1), Fix(100, 1), Fix(200, 0) }

\* the day of the call, and maturity dates 3, 7, 14, 30 and 90 days later
\* at midnight, and one 6 days later after midnight
RiskToday == Ordinal(2026, 1, 1)
RiskMaturities ==
    { <<>>, <<(RiskToday + 6) * TicksPerDay + 1>> }
    \cup { <<(RiskToday + d) * TicksPerDay>> : d \in {3, 7, 14, 30, 90} }

RiskArgs ==
    { <<"risk", st, l, p, c, m, a>> :
        st \in RiskStrategies, l \in RiskLeverages, p \in RiskProtocols,
        c \in RiskChains, m \in RiskMaturities, a \in RiskApys }

InitRisk ==
    /\ NoFetchNoView
    /\ scraper = "none"
    /\ markets = <<>>
    /\ live_yields = <<>>
    /\ today = RiskToday
    /\ pt_opp = NoPtOpp
    /\ i = 1
    /\ viable_markets = <<>>
    /\ local_opps = <<>>
    /\ result = <<>>
    /\ pc = "idle"
    /\ \E args \in RiskArgs : call = [fn |-> "none", args |-> args, ret |-> "none"]

\* calculate_risk_score(args) at some time of the day; the reading of the
\* clock is kept as the last argument
CallCalculateRiskScore ==
    /\ call.fn = "none" /\ call.args \in RiskArgs
    /\ \E tick \in 0..(TicksPerDay - 1) :
          LET a   == call.args
              now == <<today * TicksPerDay + tick>>
          IN  call' = [fn   |-> "calculate_risk_score",
                       args |-> Append(a, now),
                       ret  |-> CalculateRiskScore(a[2], a[3], a[4], a[5], a[6], a[7], now)]
    /\ UNCHANGED <<inputs, i, viable_markets, local_opps, result, pc>>

\* the RiskAssessor of streamlit_app.py: its tables, in the order of the dicts
ST_CHAIN_RISK ==
    << <<<<"e","t","h","e","r","e","u","m">>, 1>>, <<<<"a","r","b","i","t","r","u","m">>, 1>>, <<<<"b","a","s","e">>, 1>>, <<<<"o","p","t","i","m","i","s","m">>, 1>>,
       <<<<"p","o","l","y","g","o","n">>, 1>>, <<<<"a","v","a","l","a","n","c","h","e">>, 2>>, <<<<"b","s","c">>, 2>>, <<<<"s","o","l","a","n","a">>, 2>> >>
ST_STRATEGY_RISK ==
    << <<<<"l","e","n","d">>, 1>>, <<<<"l","o","o","p">>, 3>>, <<<<"p","e","n","d","l","e","_","l","o","o","p">>, 4>>, <<<<"r","e","w","a","r","d">>, 2>>,
       <<<<"v","a","u","l","t">>, 2>> >>

\* streamlit_app.RiskAssessor.calculate_risk_score
StCalculateRiskScore(strategy_type, leverage, protocol, chain, apy) ==
    LET key   == Lower(strategy_type)
        chain_lower == Lower(chain)
        base  == (IF HasKey(ST_STRATEGY_RISK, key)
                  THEN Lookup(ST_STRATEGY_RISK, key) ELSE 2) * Fix(10, 0)
        lev   == IF leverage > Fix(1, 0)
                 THEN (leverage - Fix(1, 0)) * 15
                      + (IF leverage >= Fix(5, 0) THEN Fix(20, 0) ELSE 0)
                 ELSE 0
        ch    == (IF HasKey(ST_CHAIN_RISK, chain_lower)
                  THEN Lookup(ST_CHAIN_RISK, chain_lower) ELSE 3) * Fix(5, 0)
        high  == IF apy > Fix(100, 0) THEN Fix(20, 0)
                 ELSE IF apy > Fix(50, 0) THEN Fix(10, 0) ELSE 0
    IN  RiskCategory(base + lev + ch + high)

\* streamlit_app.py: calculate_risk_score(args); it takes no maturity date and
\* reads no clock
CallStCalculateRiskScore ==
    /\ call.fn = "none" /\ call.args \in RiskArgs /\ call.args[6] = <<>>
    /\ LET a == call.args
       IN  call' = [fn   |-> "st.calculate_risk_score",
                    args |-> a,
                    ret  |-> StCalculateRiskScore(a[2], a[3], a[4], a[5], a[7])]
    /\ UNCHANGED <<inputs, i, viable_markets, local_opps, result, pc>>

\* a variant without the tier between 1 and 3
GetLeverageRiskWarningFrom3(leverage) ==
    IF leverage >= Fix(10, 0)
    THEN <<"EXTREME liquidation risk - small price moves can wipe position">>
    ELSE IF leverage >= Fix(7, 0)
    THEN <<"Very high liquidation risk - requires active monitoring">>
    ELSE IF leverage >= Fix(5, 0) THEN <<"High liquidation risk - monitor closely">>
    ELSE IF leverage >= Fix(3, 0) THEN <<"Moderate liquidation risk">>
    ELSE <<>>

\* RiskAssessor.get_leverage_risk_warning; <<>> stands for None
GetLeverageRiskWarning(leverage) ==
    IF leverage >= Fix(10, 0)
    THEN <<"EXTREME liquidation risk - small price moves can wipe position">>
    ELSE IF leverage >= Fix(7, 0)
    THEN <<"Very high liquidation risk - requires active monitoring">>
    ELSE IF leverage >= Fix(5, 0) THEN <<"High liquidation risk - monitor closely">>
    ELSE IF leverage >= Fix(3, 0) THEN <<"Moderate liquidation risk">>
    ELSE IF leverage > Fix(1, 0) THEN <<"Some liquidation risk">>
    ELSE <<>>

\* get_leverage_risk_warning(leverage) for the leverage of the arguments
CallGetLeverageRiskWarning ==
    /\ call.fn = "none" /\ call.args \in RiskArgs
    /\ call' = [fn   |-> "get_leverage_risk_warning",
                args |-> call.args,
                ret  |-> GetLeverageRiskWarning(call.args[3])]
    /\ UNCHANGED <<inputs, i, viable_markets, local_opps, result, pc>>

NextRisk ==
    \/ CallCalculateRiskScore
    \/ CallStCalculateRiskScore
    \/ CallGetLeverageRiskWarning

SpecRisk == InitRisk /\ [][NextRisk]_vars

\* the categories in increasing order
CategoryRank(category) ==
    CASE category = "Low" -> 1
      [] category = "Medium" -> 2
      [] category = "High" -> 3
      [] category = "Very High" -> 4

\* C19: for a call without maturity date and with apy <= 30 the category
\* returned is Low, Medium, High or Very High as the score
\* strategy points + leverage surcharge + protocol points + chain points is
\* below 25, below 50, below 75 or not, where the surcharge is
\* (leverage - 1) * 15 for leverage > 1, plus 20 at >= 5, 20 more at >= 7 and
\* 30 more at >= 10
C19_CategoryIsThresholdedAdditiveScore ==
    (/\ call.fn = "calculate_risk_score"
     /\ call.args[6] = <<>>
     /\ call.args[7] <= Fix(30, 0))
    => LET leverage == call.args[3]
           surcharge ==
               IF leverage > Fix(1, 0)
               THEN (leverage - Fix(1, 0)) * 15
                    + (IF leverage >= Fix(5, 0) THEN Fix(20, 0) ELSE 0)
                    + (IF leverage >= Fix(7, 0) THEN Fix(20, 0) ELSE 0)
                    + (IF leverage >= Fix(10, 0) THEN Fix(30, 0) ELSE 0)
               ELSE 0
           score == StrategyPoints(call.args[2]) + surcharge
                    + ProtocolPoints(call.args[4]) + ChainPoints(call.args[5])
       IN  /\ score < Fix(25, 0) => call.ret = "Low"
           /\ (score >= Fix(25, 0) /\ score < Fix(50, 0)) => call.ret = "Medium"
           /\ (score >= Fix(50, 0) /\ score < Fix(75, 0)) => call.ret = "High"
           /\ score >= Fix(75, 0) => call.ret = "Very High"

\* a call whose score is exactly 25 (lend 10, Aave 5, Avalanche 10, leverage
\* 1.0, no maturity date, apy <= 30) returned Medium
C19_Witness ==
    /\ call.fn = "calculate_risk_score"
    /\ call.args[6] = <<>> /\ call.args[7] <= Fix(30, 0)
    /\ call.args[3] = Fix(1, 0)
    /\ StrategyPoints(call.args[2]) + ProtocolPoints(call.args[4])
           + ChainPoints(call.args[5]) = Fix(25, 0)
    /\ call.ret = "Medium"

\* C20: the category returned for a leverage L2 >= 1 is never lower than the
\* category of the same call (same strategy, protocol, chain, maturity date,
\* apy and clock reading) at any leverage L1 with 1 <= L1 <= L2
C20_CategoryMonotonicInLeverage ==
    (call.fn = "calculate_risk_score" /\ call.args[3] >= Fix(1, 0)) =>
        \A l1 \in RiskLeverages :
            (Fix(1, 0) <= l1 /\ l1 <= call.args[3]) =>
                CategoryRank(CalculateRiskScore(call.args[2], l1, call.args[4],
                                 call.args[5], call.args[6], call.args[7],
                                 call.args[8]))
                    <= CategoryRank(call.ret)

\* a call at leverage 3.0 returned High where the same call at leverage 2.0
\* gives Medium
C20_Witness ==
    /\ call.fn = "calculate_risk_score"
    /\ call.args[3] = Fix(3, 0)
    /\ call.ret = "High"
    /\ CalculateRiskScore(call.args[2], Fix(2, 0), call.args[4], call.args[5],
                          call.args[6], call.args[7], call.args[8]) = "Medium"

\* C21: calculate_risk_score (utils/risk.py and the copy of streamlit_app.py)
\* called with apy = 200 and a leverage >= 1 never returns Low
C21_Apy200NeverLow ==
    (/\ call.fn \in {"calculate_risk_score", "st.calculate_risk_score"}
     /\ call.args[7] = Fix(200, 0)
     /\ call.args[3] >= Fix(1, 0))
    => call.ret # "Low"

\* the call with the least score of all at apy = 200 (lend on Aave on
\* Ethereum, leverage 1.0, no maturity date: 10 + 5 + 5 + 20) returned Medium
C21_Witness ==
    /\ call.fn = "calculate_risk_score"
    /\ call.args[7] = Fix(200, 0)
    /\ call.args[2] = <<"l","e","n","d">>
    /\ call.args[3] = Fix(1, 0)
    /\ call.args[4] = <<"A","a","v","e">>
    /\ call.args[5] = <<"E","t","h","e","r","e","u","m">>
    /\ call.args[6] = <<>>
    /\ call.ret = "Medium"

\* the protocol name matches no key of PROTOCOL_MATURITY
UnknownProtocol(protocol) ==
    \A k \in 1..Len(PROTOCOL_MATURITY) :
        ~Contains(Lower(protocol), PROTOCOL_MATURITY[k][1])

\* the points of the k-th entry of PROTOCOL_MATURITY
KnownProtocolPoints(k) == PROTOCOL_MATURITY[k][2] * Fix(5, 0)

\* C22 (as stated): in a call of calculate_risk_score with a protocol that
\* matches no entry of PROTOCOL_MATURITY, the protocol points are strictly
\* higher than the points of every entry of the table
C22_Original_UnknownProtocolStrictlyHighest ==
    (call.fn = "calculate_risk_score" /\ UnknownProtocol(call.args[4])) =>
        \A k \in 1..Len(PROTOCOL_MATURITY) :
            ProtocolPoints(call.args[4]) > KnownProtocolPoints(k)

\* C22 amended: the protocol points of an unknown protocol are 15, at least
\* the points of every entry of the table and equal to the points of the
\* entries of maturity 3 (Silo among them), so that the call returns the
\* category it returns for Silo
C22_UnknownProtocolAsHighestKnown ==
    (call.fn = "calculate_risk_score" /\ UnknownProtocol(call.args[4])) =>
        /\ ProtocolPoints(call.args[4]) = Fix(15, 0)
        /\ \A k \in 1..Len(PROTOCOL_MATURITY) :
               ProtocolPoints(call.args[4]) >= KnownProtocolPoints(k)
        /\ \E k \in 1..Len(PROTOCOL_MATURITY) :
               ProtocolPoints(call.args[4]) = KnownProtocolPoints(k)
        /\ call.ret = CalculateRiskScore(call.args[2], call.args[3],
                          <<"<<",">>i","l","o">>, call.args[5], call.args[6],
                          call.args[7], call.args[8])

\* a call for the unknown protocol Fluid has returned
C22_Witness ==
    /\ call.fn = "calculate_risk_score"
    /\ call.args[4] = <<"F","l","u","i","d">>
    /\ UnknownProtocol(call.args[4])
    /\ call.ret \in {"Low", "Medium", "High", "Very High"}

\* C23: in a call of calculate_risk_score with a chain absent from
\* CHAIN_RISK, the chain points are at least the points of every chain of
\* the table and are not zero; the call returns the category it returns
\* for Monad, a chain of the highest level
C23_UnknownChainGetsMaximum ==
    (call.fn = "calculate_risk_score" /\ ~HasKey(CHAIN_RISK, Lower(call.args[5]))) =>
        /\ ChainPoints(call.args[5]) > 0
        /\ \A k \in 1..Len(CHAIN_RISK) :
               /\ ChainPoints(call.args[5]) >= CHAIN_RISK[k][2] * Fix(5, 0)
               /\ ChainPoints(call.args[5]) >= ChainPoints(CHAIN_RISK[k][1])
        /\ call.ret = CalculateRiskScore(call.args[2], call.args[3], call.args[4],
                          <<"M","o","n","a","d">>, call.args[6], call.args[7],
                          call.args[8])

\* a call for the chain Mars, absent from CHAIN_RISK, has returned Medium
\* where the same call for Ethereum gives Low
C23_Witness ==
    /\ call.fn = "calculate_risk_score"
    /\ call.args[5] = <<"M","a","r","s">>
    /\ ~HasKey(CHAIN_RISK, Lower(call.args[5]))
    /\ call.ret = "Medium"
    /\ CalculateRiskScore(call.args[2], call.args[3], call.args[4],
           <<"E","t","h","e","r","e","u","m">>, call.args[6], call.args[7],
           call.args[8]) = "Low"

\* the penalty level of a maturity date by the thresholds 7, 14 and 30
\* days: 3 large, 2 moderate, 1 small, 0 none
LevelBy7And14And30(maturity_date, now) ==
    IF maturity_date = <<>> THEN 0
    ELSE LET days == DeltaDays(maturity_date, now)
         IN  IF days < 7 THEN 3 ELSE IF days < 14 THEN 2
             ELSE IF days < 30 THEN 1 ELSE 0

\* the penalty level of a maturity date by the thresholds 7, 30 and 90 days
LevelBy7And30And90(maturity_date, now) ==
    IF maturity_date = <<>> THEN 0
    ELSE LET days == DeltaDays(maturity_date, now)
         IN  IF days < 7 THEN 3 ELSE IF days < 30 THEN 2
             ELSE IF days < 90 THEN 1 ELSE 0

\* the call's result had it been given no maturity date
WithoutMaturity ==
    CalculateRiskScore(call.args[2], call.args[3], call.args[4], call.args[5],
                       <<>>, call.args[7], call.args[8])

\* C24 (as stated): in a call of calculate_risk_score the time-to-maturity
\* points follow the levels of the thresholds 7, 14 and 30 days (a higher
\* level gives more points, the same level the same points), and at 30 days
\* or more, or without a maturity date, no points are added and the result
\* is the result of the same call without a maturity date
C24_Original_MaturityThresholds7And14And30 ==
    call.fn = "calculate_risk_score" =>
        LET now == call.args[8]
            m   == call.args[6]
        IN  /\ LevelBy7And14And30(m, now) = 0 =>
                  /\ MaturityPoints(m, now) = 0
                  /\ call.ret = WithoutMaturity
            /\ \A o \in RiskMaturities :
                  /\ LevelBy7And14And30(o, now) > LevelBy7And14And30(m, now)
                        => MaturityPoints(o, now) > MaturityPoints(m, now)
                  /\ LevelBy7And14And30(o, now) = LevelBy7And14And30(m, now)
                        => MaturityPoints(o, now) = MaturityPoints(m, now)

\* C24 amended: the time-to-maturity points are 30 below 7 days, 15 below
\* 30 days, 5 below 90 days and 0 from 90 days on or without a maturity
\* date, and in the last two cases the result is the result of the same
\* call without a maturity date
C24_MaturityThresholds7And30And90 ==
    call.fn = "calculate_risk_score" =>
        LET now   == call.args[8]
            m     == call.args[6]
            level == LevelBy7And30And90(m, now)
        IN  /\ MaturityPoints(m, now) =
                  CASE level = 3 -> Fix(30, 0) [] level = 2 -> Fix(15, 0)
                    [] level = 1 -> Fix(5, 0)  [] OTHER -> 0
            /\ level = 0 => call.ret = WithoutMaturity

\* a call with a maturity date exactly 30 days ahead has returned Medium
\* where the same call without a maturity date gives Low
C24_Witness ==
    /\ call.fn = "calculate_risk_score"
    /\ call.args[6] # <<>>
    /\ DeltaDays(call.args[6], call.args[8]) = 30
    /\ call.ret = "Medium"
    /\ WithoutMaturity = "Low"

\* the number of thresholds of a set that a leverage has reached
BandOf(leverage, thresholds) ==
    Cardinality({t \in thresholds : leverage >= Fix(t, 0)})

\* C25 (as stated): get_leverage_risk_warning returns None for every
\* leverage below 3 and a string from 3 on, and two leverages get the same
\* return value exactly when no threshold of 3, 5, 7, 10 separates them
C25_Original_WarningChangesAt3And5And7And10 ==
    call.fn = "get_leverage_risk_warning" =>
        /\ (call.args[3] < Fix(3, 0)) <=> (call.ret = <<>>)
        /\ \A o \in RiskLeverages :
              (BandOf(o, {3, 5, 7, 10}) = BandOf(call.args[3], {3, 5, 7, 10}))
                  <=> (GetLeverageRiskWarning(o) = call.ret)

\* C25 amended: get_leverage_risk_warning returns None for every leverage
\* up to 1, "Some liquidation risk" above 1 and below 3, and from 3 on a
\* string that changes exactly at 3, 5, 7 and 10
C25_WarningChangesAbove1AndAt3And5And7And10 ==
    call.fn = "get_leverage_risk_warning" =>
        /\ (call.args[3] <= Fix(1, 0)) <=> (call.ret = <<>>)
        /\ (call.args[3] > Fix(1, 0) /\ call.args[3] < Fix(3, 0))
               <=> (call.ret = <<"Some liquidation risk">>)
        /\ \A o \in RiskLeverages :
              (o > Fix(1, 0) /\ call.args[3] > Fix(1, 0)) =>
                  ((BandOf(o, {3, 5, 7, 10}) = BandOf(call.args[3], {3, 5, 7, 10}))
                      <=> (GetLeverageRiskWarning(o) = call.ret))

\* the call for leverage 2.999 has returned the string of the lowest tier
C25_Witness ==
    /\ call.fn = "get_leverage_risk_warning"
    /\ call.args[3] = Fix(2, 999)
    /\ call.ret = <<"Some liquidation risk">>

(***************************************************************************)
(* The risk scorer and the loop synthesizers together                      *)
(***************************************************************************)
InitCore == Init \/ InitRisk

NextCore == Next \/ NextRisk

SpecCore == InitCore /\ [][NextCore]_vars

\* MorphoLoopScraper._calculate_loop_opportunities from the k-th market on
RECURSIVE CalculateLoopOpportunities(_, _, _, _)
CalculateLoopOpportunities(ms, live, td, k) ==
    IF k > Len(ms) THEN <<>>
    ELSE MorphoMarketOpps(ms[k], live, td)
             \o CalculateLoopOpportunities(ms, live, td, k + 1)

\* what MorphoLoopScraper._fetch_data returns for the market records ms when
\* _live_yields is live and date.today() is td
MorphoFetchData(ms, live, td) ==
    IF \E k \in 1..Len(ms) : MorphoMarketRaises(ms[k], td) THEN <<>>
    ELSE CalculateLoopOpportunities(ms, live, td, 1)

\* readings of the clock: the times of the day of the call and of the next
ClockReadings ==
    { <<d * TicksPerDay + tick>> : d \in {RiskToday, RiskToday + 1},
                                   tick \in 0..(TicksPerDay - 1) }

\* the call's result had the clock read now
AtClockReading(now) ==
    CalculateRiskScore(call.args[2], call.args[3], call.args[4], call.args[5],
                       call.args[6], call.args[7], now)

\* the markets whose collateral is an expired PT when date.today() is td
ExpiredAt(ms, td) ==
    {k \in 1..Len(ms) :
        /\ ~ms[k].collateralAsset.null
        /\ ms[k].collateralAsset.symbol # None
        /\ IsPtExpired(Upper(ms[k].collateralAsset.symbol), td)}

\* C26 (as stated): the result of a call of calculate_risk_score is the
\* result of the same call at every other reading of the clock, and the
\* result of the Morpho loop is its result for the same market records on
\* every other day and after every other fetch of live yields
C26_Original_ResultsDependOnArgumentsOnly ==
    /\ call.fn = "calculate_risk_score" =>
           \A now \in ClockReadings : call.ret = AtClockReading(now)
    /\ (scraper = "morpho" /\ pc = "done") =>
           \A td \in Todays : \A live \in LiveYieldTables \cup {LiveYieldsWithPt} :
               result = MorphoFetchData(markets, live, td)

\* C26 amended: the result of calculate_risk_score is the same at every
\* reading of the clock when no maturity date is given, and otherwise at
\* every reading with the same whole number of days to maturity; the result
\* of the Morpho loop is a function of the market records, of _live_yields
\* and of the set of PT collaterals that have expired on the day of the run
C26_ResultsDependOnClockOnlyThroughMaturity ==
    /\ call.fn = "calculate_risk_score" =>
           \A now \in ClockReadings :
               \/ /\ call.args[6] # <<>>
                  /\ DeltaDays(call.args[6], now) # DeltaDays(call.args[6], call.args[8])
               \/ call.ret = AtClockReading(now)
    /\ (scraper = "morpho" /\ pc = "done") =>
           \A td \in Todays :
               ExpiredAt(markets, td) = ExpiredAt(markets, today)
                   => result = MorphoFetchData(markets, live_yields, td)

\* a call with a maturity date has returned High, and the same call a day
\* later gives Very High
C26_Witness ==
    /\ call.fn = "calculate_risk_score"
    /\ call.args[6] # <<>>
    /\ call.ret = "High"
    /\ AtClockReading(<<call.args[8][1] + TicksPerDay>>) = "Very High"

\* a run of the Morpho loop has returned opportunities for market records
\* that give none on a later day
C26_WitnessMorpho ==
    /\ scraper = "morpho" /\ pc = "done"
    /\ result # <<>>
    /\ \E td \in Todays : td > today /\ MorphoFetchData(markets, live_yields, td) = <<>>

(***************************************************************************)
(* main.py and streamlit_app.py: filter_opportunities                      *)
(***************************************************************************)
\* the longest list of opportunities given to filter_opportunities
FilterLen == 2

\* str.title(): a letter that follows a letter is lower-cased, every other
\* letter is upper-cased
Title(s) ==
    [k \in 1..Len(s) |->
        IF k > 1 /\ s[k - 1] \in (UpperSet \cup LowerSet)
        THEN (IF s[k] \in UpperSet THEN LowerOf[s[k]] ELSE s[k])
        ELSE UpperChar(s[k])]

\* risk_levels
RISK_LEVELS == << <<"L","o","w">>, <<"M","e","d","i","u","m">>, <<"H","i","g","h">>, <<"V","e","r","y"," ","H","i","g","h">> >>

\* level in risk_levels
InLevels(level) == \E k \in 1..Len(RISK_LEVELS) : RISK_LEVELS[k] = level

\* risk_levels.index(level)
RiskIndex(level) == CHOOSE k \in 1..Len(RISK_LEVELS) : RISK_LEVELS[k] = level

\* the fields of a YieldOpportunity that filter_opportunities reads; tvl is
\* <<>> for None
FilterOpp(apy, risk, chain, stablecoin, protocol, leverage, tvl) ==
    [apy |-> apy, risk_score |-> risk, chain |-> chain, stablecoin |-> stablecoin,
     protocol |-> protocol, leverage |-> leverage, tvl |-> tvl]

\* python truthiness of an optional number: None and 0 are false
TruthyNumber(opt) == opt # <<>> /\ opt[1] # 0

\* python truthiness of an optional string: None and "" are false
TruthyString(s) == s # None /\ s # <<>>

\* main.filter_opportunities; c holds the keyword arguments, a number as
\* <<>> for None, a string as None
FilterOpportunities(opportunities, c) ==
    LET f1 == IF c.min_apy # <<>>
              THEN LET Ok(o) == o.apy >= c.min_apy[1] IN SelectSeq(opportunities, Ok)
              ELSE opportunities
        f2 == IF TruthyString(c.max_risk) /\ InLevels(Title(c.max_risk))
              THEN LET max_idx == RiskIndex(Title(c.max_risk))
                       Ok(o)   == RiskIndex(o.risk_score) <= max_idx
                   IN  SelectSeq(f1, Ok)
              ELSE f1
        f3 == IF TruthyString(c.chain)
              THEN LET Ok(o) == Lower(o.chain) = Lower(c.chain) IN SelectSeq(f2, Ok)
              ELSE f2
        f4 == IF TruthyString(c.stablecoin)
              THEN LET Ok(o) == Contains(Upper(o.stablecoin), Upper(c.stablecoin))
                   IN  SelectSeq(f3, Ok)
              ELSE f3
        f5 == IF TruthyString(c.protocol)
              THEN LET Ok(o) == Contains(Lower(o.protocol), Lower(c.protocol))
                   IN  SelectSeq(f4, Ok)
              ELSE f4
        f6 == IF c.max_leverage # <<>>
              THEN LET Ok(o) == o.leverage <= c.max_leverage[1] IN SelectSeq(f5, Ok)
              ELSE f5
        f7 == IF c.min_tvl # <<>>
              THEN LET Ok(o) == TruthyNumber(o.tvl) /\ o.tvl[1] >= c.min_tvl[1]
                   IN  SelectSeq(f6, Ok)
              ELSE f6
    IN  f7

\* streamlit_app.filter_opportunities with exclude_yt left at False: the
\* numbers are tested for truth and max_risk is compared as it is written
StFilterOpportunities(opportunities, c) ==
    LET f1 == IF TruthyNumber(c.min_apy)
              THEN LET Ok(o) == o.apy >= c.min_apy[1] IN SelectSeq(opportunities, Ok)
              ELSE opportunities
        f2 == IF TruthyString(c.max_risk) /\ InLevels(c.max_risk)
              THEN LET idx   == RiskIndex(c.max_risk)
                       Ok(o) == RiskIndex(o.risk_score) <= idx
                   IN  SelectSeq(f1, Ok)
              ELSE f1
        f3 == IF TruthyString(c.chain)
              THEN LET Ok(o) == Lower(o.chain) = Lower(c.chain) IN SelectSeq(f2, Ok)
              ELSE f2
        f4 == IF TruthyString(c.stablecoin)
              THEN LET Ok(o) == Contains(Upper(o.stablecoin), Upper(c.stablecoin))
                   IN  SelectSeq(f3, Ok)
              ELSE f3
        f5 == IF TruthyString(c.protocol)
              THEN LET Ok(o) == Contains(Lower(o.protocol), Lower(c.protocol))
                   IN  SelectSeq(f4, Ok)
              ELSE f4
        f6 == IF TruthyNumber(c.max_leverage)
              THEN LET Ok(o) == o.leverage <= c.max_leverage[1] IN SelectSeq(f5, Ok)
              ELSE f5
        f7 == IF TruthyNumber(c.min_tvl)
              THEN LET Ok(o) == TruthyNumber(o.tvl) /\ o.tvl[1] >= c.min_tvl[1]
                   IN  SelectSeq(f6, Ok)
              ELSE f6
    IN  f7

\* opportunities: a plain one, one without a tvl, one with a tvl of 0, one
\* with a negative apy
FilterOpps ==
    { FilterOpp(Fix(8, 0), <<"L","o","w">>, <<"E","t","h","e","r","e","u","m">>, <<"U","S","D","C">>, <<"A","a","v","e">>, Fix(1, 0), <<5000>>),
      FilterOpp(Fix(3, 0), <<"H","i","g","h">>, <<"A","r","b","i","t","r","u","m">>, <<"s","U","S","D","e">>, <<"P","e","n","d","l","e"," ","+"," ","A","a","v","e">>, Fix(3, 0), <<>>),
      FilterOpp(Fix(12, 0), <<"V","e","r","y"," ","H","i","g","h">>, <<"e","t","h","e","r","e","u","m">>, <<"U","S","D","e">>, <<"M","o","r","p","h","o">>, Fix(5, 0), <<0>>),
      FilterOpp(0 - Fix(1, 0), <<"M","e","d","i","u","m">>, <<"B","a","s","e">>, <<"U","S","D","T">>, <<"S","i","l","o">>, Fix(1, 0), <<100>>) }

FilterLists ==
    UNION { [1..n -> FilterOpps] : n \in 0..FilterLen }

\* keyword arguments: each criterion absent or given
FilterCriteria ==
    [min_apy : {<<>>, <<0>>, <<Fix(5, 0)>>},
     max_risk : {None, <<"M","e","d","i","u","m">>, <<"v","e","r","y"," ","h","i","g","h">>, <<"e","x","t","r","e","m","e">>},
     chain : {None, <<>>, <<"e","t","h","e","r","e","u","m">>},
     stablecoin : {None, <<"u","s","d">>},
     protocol : {None, <<"a","a","v","e">>},
     max_leverage : {<<>>, <<Fix(2, 0)>>},
     min_tvl : {<<>>, <<0>>, <<1000>>}]

FilterArgs == { <<"filter", os, c>> : os \in FilterLists, c \in FilterCriteria }

InitFilter ==
    /\ NoFetchNoView
    /\ scraper = "none"
    /\ markets = <<>>
    /\ live_yields = <<>>
    /\ today = RiskToday
    /\ pt_opp = NoPtOpp
    /\ i = 1
    /\ viable_markets = <<>>
    /\ local_opps = <<>>
    /\ result = <<>>
    /\ pc = "idle"
    /\ call \in { [fn |-> "none", args |-> a, ret |-> "none"] : a \in FilterArgs }

\* main.filter_opportunities(opportunities, **criteria)
CallFilterOpportunities ==
    /\ call.fn = "none" /\ call.args \in FilterArgs
    /\ call' = [fn   |-> "filter_opportunities",
                args |-> call.args,
                ret  |-> FilterOpportunities(call.args[2], call.args[3])]
    /\ UNCHANGED <<inputs, i, viable_markets, local_opps, result, pc>>

\* streamlit_app.filter_opportunities(opportunities, **criteria)
CallStFilterOpportunities ==
    /\ call.fn = "none" /\ call.args \in FilterArgs
    /\ call' = [fn   |-> "st.filter_opportunities",
                args |-> call.args,
                ret  |-> StFilterOpportunities(call.args[2], call.args[3])]
    /\ UNCHANGED <<inputs, i, viable_markets, local_opps, result, pc>>

NextFilter ==
    \/ CallFilterOpportunities
    \/ CallStFilterOpportunities

SpecFilter == InitFilter /\ [][NextFilter]_vars

\* an opportunity satisfies every criterion that is given: a number that is
\* not None, a string that is not None and not empty, a max_risk that names
\* a level when title-cased
SatisfiesCriteria(o, c) ==
    /\ c.min_apy # <<>> => o.apy >= c.min_apy[1]
    /\ (TruthyString(c.max_risk) /\ InLevels(Title(c.max_risk)))
           => RiskIndex(o.risk_score) <= RiskIndex(Title(c.max_risk))
    /\ TruthyString(c.chain) => Lower(o.chain) = Lower(c.chain)
    /\ TruthyString(c.stablecoin) => Contains(Lower(o.stablecoin), Lower(c.stablecoin))
    /\ TruthyString(c.protocol) => Contains(Lower(o.protocol), Lower(c.protocol))
    /\ c.max_leverage # <<>> => o.leverage <= c.max_leverage[1]
    /\ c.min_tvl # <<>> => (o.tvl # <<>> /\ o.tvl[1] >= c.min_tvl[1])

\* C27 (as stated): main.filter_opportunities returns exactly the input
\* opportunities, in their input order, that satisfy every criterion given
\* (apy, risk rank, chain, asset, protocol, leverage, and a tvl that is
\* present and at least min_tvl)
C27_Original_ReturnsExactlyTheSatisfying ==
    call.fn = "filter_opportunities" =>
        LET Ok(o) == SatisfiesCriteria(o, call.args[3])
        IN  call.ret = SelectSeq(call.args[2], Ok)

(***************************************************************************)
(* models/opportunity.py: YieldOpportunity.to_dict and from_dict           *)
(***************************************************************************)
\* a datetime; tz is <<>> for a naive one, else the offset from UTC in minutes
DateTime(y, mo, d, h, mi, s, us, tz) ==
    [year |-> y, month |-> mo, day |-> d, hour |-> h, minute |-> mi,
     second |-> s, microsecond |-> us, tz |-> tz]

Pow10(n) == IF n = 0 THEN 1 ELSE IF n = 1 THEN 10 ELSE IF n = 2 THEN 100
            ELSE IF n = 3 THEN 1000 ELSE IF n = 4 THEN 10000 ELSE 100000

\* a number written with a fixed count of digits, zero-padded
Padded(n, width) ==
    [k \in 1..width |-> DigitChars[((n \div Pow10(width - k)) % 10) + 1]]

\* the UTC offset as +HH:MM or -HH:MM, nothing for a naive datetime
IsoOffset(tz) ==
    IF tz = <<>> THEN <<>>
    ELSE LET sign == IF tz[1] < 0 THEN <<"-">> ELSE <<"+">>
             mins == Abs(tz[1])
         IN  sign \o Padded(mins \div 60, 2) \o <<":">> \o Padded(mins % 60, 2)

\* a variant of isoformat that never writes the microseconds
IsoformatToSeconds(dt) ==
    Padded(dt.year, 4) \o <<"-">> \o Padded(dt.month, 2) \o <<"-">> \o Padded(dt.day, 2)
    \o <<"T">> \o Padded(dt.hour, 2) \o <<":">> \o Padded(dt.minute, 2)
    \o <<":">> \o Padded(dt.second, 2) \o IsoOffset(dt.tz)

\* datetime.isoformat(): YYYY-MM-DDTHH:MM:SS, then .ffffff when the
\* microsecond is not 0, then the UTC offset of an aware datetime
Isoformat(dt) ==
    Padded(dt.year, 4) \o <<"-">> \o Padded(dt.month, 2) \o <<"-">> \o Padded(dt.day, 2)
    \o <<"T">> \o Padded(dt.hour, 2) \o <<":">> \o Padded(dt.minute, 2)
    \o <<":">> \o Padded(dt.second, 2)
    \o (IF dt.microsecond # 0 THEN <<".">> \o Padded(dt.microsecond, 6) ELSE <<>>)
    \o IsoOffset(dt.tz)

\* datetime.fromisoformat() on a string that isoformat() wrote
FromIsoformat(s) ==
    LET frac == Len(s) >= 20 /\ s[20] = "."
        rest == IF frac THEN SubSeq(s, 27, Len(s)) ELSE SubSeq(s, 20, Len(s))
        off  == IF rest = <<>> THEN <<>>
                ELSE LET mins == DigitsToInt(SubSeq(rest, 2, 3)) * 60
                                 + DigitsToInt(SubSeq(rest, 5, 6))
                     IN  <<IF rest[1] = "-" THEN 0 - mins ELSE mins>>
    IN  DateTime(DigitsToInt(SubSeq(s, 1, 4)), DigitsToInt(SubSeq(s, 6, 7)),
                 DigitsToInt(SubSeq(s, 9, 10)), DigitsToInt(SubSeq(s, 12, 13)),
                 DigitsToInt(SubSeq(s, 15, 16)), DigitsToInt(SubSeq(s, 18, 19)),
                 IF frac THEN DigitsToInt(SubSeq(s, 21, 26)) ELSE 0, off)

\* YieldOpportunity.to_dict: the dict as a function of its keys; an optional
\* number stays <<>> or <<n>>, the maturity date becomes None or a string
ToDict(o) ==
    [category |-> o.category, protocol |-> o.protocol, chain |-> o.chain,
     stablecoin |-> o.stablecoin, apy |-> o.apy, tvl |-> o.tvl,
     risk_score |-> o.risk_score, leverage |-> o.leverage,
     source_url |-> o.source_url,
     maturity_date |-> IF o.maturity_date # <<>> THEN Isoformat(o.maturity_date[1])
                       ELSE None,
     borrow_apy |-> o.borrow_apy, supply_apy |-> o.supply_apy,
     reward_token |-> o.reward_token, opportunity_type |-> o.opportunity_type,
     additional_info |-> o.additional_info]

\* data.get(key, default)
DictGet(data, key, default) == IF key \in DOMAIN data THEN data[key] ELSE default

\* YieldOpportunity.from_dict: a maturity that is a non-empty string is
\* parsed, None stays None
FromDict(data) ==
    LET maturity == DictGet(data, "maturity_date", None)
    IN  [category |-> data["category"], protocol |-> data["protocol"],
         chain |-> data["chain"], stablecoin |-> data["stablecoin"],
         apy |-> data["apy"], tvl |-> DictGet(data, "tvl", <<>>),
         risk_score |-> DictGet(data, "risk_score", <<"M","e","d","i","u","m">>),
         leverage |-> DictGet(data, "leverage", Fix(1, 0)),
         source_url |-> DictGet(data, "source_url", <<>>),
         maturity_date |-> IF maturity = None THEN <<>>
                           ELSE IF maturity # <<>> THEN <<FromIsoformat(maturity)>>
                           ELSE <<maturity>>,
         borrow_apy |-> DictGet(data, "borrow_apy", <<>>),
         supply_apy |-> DictGet(data, "supply_apy", <<>>),
         reward_token |-> DictGet(data, "reward_token", None),
         opportunity_type |-> DictGet(data, "opportunity_type", <<>>),
         additional_info |-> DictGet(data, "additional_info", <<>>)]

\* maturity dates: none, and naive and aware datetimes with and without
\* microseconds
RoundTripMaturities ==
    { <<>> } \cup
    { <<DateTime(d[1], d[2], d[3], t[1], t[2], t[3], us, tz)>> :
        d \in { <<2026, 3, 27>>, <<2025, 12, 31>> },
        t \in { <<0, 0, 0>>, <<23, 59, 59>> },
        us \in { 0, 5, 123456 },
        tz \in { <<>>, <<0>>, <<0 - 330>>, <<60>> } }

\* opportunities with the optional fields set or None
RoundTripOpps ==
    { [category |-> <<"P","e","n","d","l","e"," ","L","o","o","p">>, protocol |-> <<"P","e","n","d","l","e">>, chain |-> <<"E","t","h","e","r","e","u","m">>,
       stablecoin |-> <<"s","U","S","D","e">>, apy |-> Fix(12, 500), tvl |-> tvl,
       risk_score |-> risk, leverage |-> Fix(3, 0),
       source_url |-> <<"h","t","t","p","s",":","/","/","a","p","p",".","p","e","n","d","l","e",".","f","i","n","a","n","c","e">>, maturity_date |-> m,
       borrow_apy |-> b, supply_apy |-> b, reward_token |-> rt,
       opportunity_type |-> <<>>, additional_info |-> info] :
        tvl \in { <<>>, <<600000>> }, risk \in { <<"M","e","d","i","u","m">>, <<"H","i","g","h">> },
        m \in RoundTripMaturities, b \in { <<>>, <<Fix(4, 0)>> },
        rt \in { None, <<"P","E","N","D","L","E">> },
        info \in { <<>>, << <<<<"l","l","t","v">>, Fix(86, 0)>> >> } }

RoundTripArgs == { <<"opportunity", o>> : o \in RoundTripOpps }

InitRoundTrip ==
    /\ NoFetchNoView
    /\ scraper = "none"
    /\ markets = <<>>
    /\ live_yields = <<>>
    /\ today = RiskToday
    /\ pt_opp = NoPtOpp
    /\ i = 1
    /\ viable_markets = <<>>
    /\ local_opps = <<>>
    /\ result = <<>>
    /\ pc = "idle"
    /\ call \in { [fn |-> "none", args |-> a, ret |-> "none"] : a \in RoundTripArgs }

\* o.to_dict(), as _save_to_cache calls it for every opportunity
CallToDict ==
    /\ call.fn = "none" /\ call.args \in RoundTripArgs
    /\ call' = [fn |-> "to_dict", args |-> call.args, ret |-> ToDict(call.args[2])]
    /\ UNCHANGED <<inputs, i, viable_markets, local_opps, result, pc>>

\* YieldOpportunity.from_dict(d) on the dict that to_dict returned
CallFromDict ==
    /\ call.fn = "to_dict"
    /\ call' = [fn |-> "from_dict", args |-> call.args, ret |-> FromDict(call.ret)]
    /\ UNCHANGED <<inputs, i, viable_markets, local_opps, result, pc>>

NextRoundTrip ==
    \/ CallToDict
    \/ CallFromDict

SpecRoundTrip == InitRoundTrip /\ [][NextRoundTrip]_vars

\* C28: from_dict(o.to_dict()) equals o in every field, whether the
\* maturity date and the optional fields are set or None
C28_FromDictOfToDictIsTheOpportunity ==
    call.fn = "from_dict" =>
        /\ call.ret = call.args[2]
        /\ \A f \in DOMAIN call.args[2] : call.ret[f] = call.args[2][f]

\* from_dict has returned for an opportunity without a tvl whose maturity
\* date is aware and has microseconds
C28_Witness ==
    /\ call.fn = "from_dict"
    /\ call.args[2].tvl = <<>>
    /\ call.args[2].maturity_date = <<DateTime(2026, 3, 27, 23, 59, 59, 123456, <<0 - 330>>)>>
    /\ call.ret.maturity_date = call.args[2].maturity_date

(***************************************************************************)
(* scrapers/base.py: BaseScraper.fetch and its cache file                  *)
(***************************************************************************)
\* config.CACHE_DURATION, in seconds
CACHE_DURATION == 300

\* the time that passes between two steps of fetch, and the latest time
TickSeconds == 150
MaxClock == 600

\* the cache file: absent, unreadable (not the JSON that _save_to_cache
\* writes), or a timestamp and the dicts of the opportunities
CacheFile(exists, readable, timestamp, data) ==
    [exists |-> exists, readable |-> readable, timestamp |-> timestamp, data |-> data]

NoCacheFile == CacheFile(FALSE, FALSE, 0, <<>>)

\* a variant of _get_cached_data that returns the data whatever their age
GetCachedDataOfAnyAge(cache_file, file, t) ==
    IF cache_file = "" THEN <<>>
    ELSE IF ~file.exists THEN <<>>
    ELSE IF ~file.readable THEN <<>>
    ELSE <<file.data>>

\* BaseScraper._get_cached_data at time t: <<>> for None, else <<data>>
GetCachedData(cache_file, file, t) ==
    IF cache_file = "" THEN <<>>
    ELSE IF ~file.exists THEN <<>>
    ELSE IF ~file.readable THEN <<>>
    ELSE IF t - file.timestamp < CACHE_DURATION THEN <<file.data>>
    ELSE <<>>

\* "if cached:" a list that is not None and not empty
CachedTruthy(cached) == cached # <<>> /\ cached[1] # <<>>

\* [YieldOpportunity.from_dict(d) for d in cached]
FromDicts(ds) == [k \in 1..Len(ds) |-> FromDict(ds[k])]

\* [o.to_dict() for o in opportunities]
ToDicts(os) == [k \in 1..Len(os) |-> ToDict(os[k])]

\* an opportunity that a scraper returns
FetchedOpp(apy, maturity) ==
    [category |-> <<"M","o","r","p","h","o"," ","L","o","o","p">>, protocol |-> <<"M","o","r","p","h","o">>, chain |-> <<"E","t","h","e","r","e","u","m">>,
     stablecoin |-> <<"s","U","S","D","e">>, apy |-> apy, tvl |-> <<2000000>>,
     risk_score |-> <<"H","i","g","h">>, leverage |-> Fix(3, 0), source_url |-> <<>>,
     maturity_date |-> maturity, borrow_apy |-> <<Fix(4, 0)>>,
     supply_apy |-> <<>>, reward_token |-> None, opportunity_type |-> <<>>,
     additional_info |-> <<>>]

OldOpp == FetchedOpp(Fix(9, 0), <<>>)
NewOpp == FetchedOpp(Fix(12, 0), <<DateTime(2026, 3, 27, 0, 0, 0, 0, <<0>>)>>)

\* what _fetch_data can return
FetchedLists == { <<>>, <<NewOpp>>, <<NewOpp, OldOpp>> }

\* the cache file before the call: none, an unreadable one, or one written
\* two ticks or one tick ago, empty or not
CacheFiles ==
    { NoCacheFile, CacheFile(TRUE, FALSE, 0, <<>>) }
    \cup { CacheFile(TRUE, TRUE, t, d) :
              t \in {0, TickSeconds}, d \in { <<>>, ToDicts(<<OldOpp>>) } }

\* the arguments and the class attributes of the scraper: use_cache,
\* requires_vpn, whether the VPN connects, cache_file
FetchArgs ==
    { <<"fetch", uc, rv, vc, cf>> :
        uc \in BOOLEAN, rv \in BOOLEAN, vc \in BOOLEAN, cf \in {"", "morpho_loop"} }

InitFetch ==
    /\ scraper = "base"
    /\ markets = <<>>
    /\ live_yields = <<>>
    /\ today = RiskToday
    /\ pt_opp = NoPtOpp
    /\ i = 1
    /\ viable_markets = <<>>
    /\ local_opps = <<>>
    /\ result = <<>>
    /\ pc = "start"
    /\ call \in { [fn |-> "fetch", args |-> a, ret |-> "none"] : a \in FetchArgs }
    /\ cache \in CacheFiles
    /\ clock = 2 * TickSeconds
    /\ fetch_data = "not called"
    /\ app = <<>>

\* fetch: "if use_cache: cached = self._get_cached_data(); if cached: return"
FetchCheckCache ==
    /\ scraper = "base" /\ pc = "start"
    /\ LET cached == IF call.args[2] THEN GetCachedData(call.args[5], cache, clock)
                     ELSE <<>>
       IN  IF CachedTruthy(cached)
           THEN /\ result' = FromDicts(cached[1])
                /\ pc' = "returned"
                /\ call' = [call EXCEPT !.ret = "returned"]
           ELSE /\ pc' = "vpn"
                /\ UNCHANGED <<result, call>>
    /\ UNCHANGED <<scraper, markets, live_yields, today, pt_opp, i, viable_markets,
                   local_opps, cache, clock, fetch_data, app>>

\* fetch: "if not self._ensure_vpn(): raise RuntimeError"
FetchEnsureVpn ==
    /\ scraper = "base" /\ pc = "vpn"
    /\ IF call.args[3] /\ ~call.args[4]
       THEN /\ pc' = "raised"
            /\ call' = [call EXCEPT !.ret = "RuntimeError"]
       ELSE /\ pc' = "fetch_data"
            /\ UNCHANGED call
    /\ UNCHANGED <<scraper, markets, live_yields, today, pt_opp, i, viable_markets,
                   local_opps, result, cache, clock, fetch_data, app>>

\* fetch: "opportunities = self._fetch_data()" returns a list
FetchDataReturns ==
    /\ scraper = "base" /\ pc = "fetch_data"
    /\ local_opps' \in FetchedLists
    /\ fetch_data' = "returned"
    /\ pc' = "save"
    /\ UNCHANGED <<scraper, markets, live_yields, today, pt_opp, i, viable_markets,
                   result, call, cache, clock, app>>

\* fetch: "opportunities = self._fetch_data()" raises
FetchDataRaises ==
    /\ scraper = "base" /\ pc = "fetch_data"
    /\ fetch_data' = "raised"
    /\ pc' = "except"
    /\ UNCHANGED <<scraper, markets, live_yields, today, pt_opp, i, viable_markets,
                   local_opps, result, call, cache, clock, app>>

\* fetch: "self._save_to_cache([o.to_dict() for o in opportunities]);
\* return opportunities"
FetchSaveToCache ==
    /\ scraper = "base" /\ pc = "save"
    /\ cache' = IF call.args[5] = "" THEN cache
                ELSE CacheFile(TRUE, TRUE, clock, ToDicts(local_opps))
    /\ result' = local_opps
    /\ pc' = "returned"
    /\ call' = [call EXCEPT !.ret = "returned"]
    /\ UNCHANGED <<scraper, markets, live_yields, today, pt_opp, i, viable_markets,
                   local_opps, clock, fetch_data, app>>

\* fetch: "except Exception: cached = self._get_cached_data(); if cached:
\* return ...; raise"
FetchExcept ==
    /\ scraper = "base" /\ pc = "except"
    /\ LET cached == GetCachedData(call.args[5], cache, clock)
       IN  IF CachedTruthy(cached)
           THEN /\ result' = FromDicts(cached[1])
                /\ pc' = "returned"
                /\ call' = [call EXCEPT !.ret = "returned"]
           ELSE /\ pc' = "raised"
                /\ call' = [call EXCEPT !.ret = "re-raised"]
                /\ UNCHANGED result
    /\ UNCHANGED <<scraper, markets, live_yields, today, pt_opp, i, viable_markets,
                   local_opps, cache, clock, fetch_data, app>>

\* time passes while fetch runs
FetchTick ==
    /\ scraper = "base" /\ pc \notin {"returned", "raised"}
    /\ clock + TickSeconds <= MaxClock
    /\ clock' = clock + TickSeconds
    /\ UNCHANGED <<scraper, markets, live_yields, today, pt_opp, i, viable_markets,
                   local_opps, result, pc, call, cache, fetch_data, app>>

NextFetch ==
    \/ FetchCheckCache
    \/ FetchEnsureVpn
    \/ FetchDataReturns
    \/ FetchDataRaises
    \/ FetchSaveToCache
    \/ FetchExcept
    \/ FetchTick

SpecFetch == InitFetch /\ [][NextFetch]_vars

\* a cache file is set, exists, is readable, is younger than CACHE_DURATION
\* and holds at least one opportunity
FreshNonEmptyCache ==
    /\ call.args[5] # ""
    /\ cache.exists /\ cache.readable
    /\ clock - cache.timestamp < CACHE_DURATION
    /\ cache.data # <<>>

\* fetch has ended
FetchEnded == scraper = "base" /\ pc \in {"returned", "raised"}

\* the parts of C29 about the cache and about a failing _fetch_data: the
\* cache file changes only in the step that follows a _fetch_data that
\* returned; once _fetch_data has raised the file stays as it is, and fetch
\* returns the cached opportunities when the cache is fresh and not empty
\* and re-raises otherwise
CacheWrittenOnlyAfterFetchData ==
    /\ cache' # cache => (pc = "save" /\ fetch_data = "returned")
    /\ fetch_data' = "raised" => cache' = cache
    /\ (FetchEnded' /\ fetch_data' = "raised") =>
           IF FreshNonEmptyCache'
           THEN call'.ret = "returned" /\ result' = FromDicts(cache'.data)
           ELSE call'.ret = "re-raised"

\* C29 (as stated): the parts above, and whenever the scraper requires a
\* VPN that does not connect, fetch raises without a call of _fetch_data
\* and without a change of the cache file
C29_Original_VpnFailureAlwaysRaises ==
    [][/\ CacheWrittenOnlyAfterFetchData
       /\ (FetchEnded' /\ call.args[3] /\ ~call.args[4]) =>
              /\ call'.ret = "RuntimeError"
              /\ fetch_data' = "not called"
              /\ cache' = cache]_vars

\* C29 amended: the parts above, and when the scraper requires a VPN that
\* does not connect, fetch returns the cached opportunities if use_cache is
\* set and the cache is fresh and not empty, and raises otherwise; in both
\* cases _fetch_data is not called and the cache file does not change
C29_VpnFailureRaisesUnlessCacheServes ==
    [][/\ CacheWrittenOnlyAfterFetchData
       /\ (FetchEnded' /\ call.args[3] /\ ~call.args[4]) =>
              /\ fetch_data' = "not called"
              /\ cache' = cache
              /\ IF call.args[2] /\ FreshNonEmptyCache'
                 THEN call'.ret = "returned" /\ result' = FromDicts(cache'.data)
                 ELSE call'.ret = "RuntimeError"]_vars

\* fetch(use_cache=False) has returned the cached opportunity after
\* _fetch_data raised
C29_Witness ==
    /\ FetchEnded
    /\ ~call.args[2]
    /\ fetch_data = "raised"
    /\ call.ret = "returned"
    /\ result = <<OldOpp>>

\* fetch has raised RuntimeError for a VPN that does not connect
C29_WitnessVpn ==
    /\ FetchEnded
    /\ call.args[3] /\ ~call.args[4]
    /\ call.ret = "RuntimeError"
    /\ fetch_data = "not called"

(***************************************************************************)
(* interactive.py: YieldTableApp                                           *)
(***************************************************************************)
\* everything but the view
not_app == <<scraper, markets, live_yields, today, pt_opp, i, viable_markets,
             local_opps, result, pc, call, cache, clock, fetch_data>>

\* str.strip() of spaces
Strip(s) ==
    LET keep == {k \in 1..Len(s) : s[k] # " "}
    IN  IF keep = {} THEN <<>>
        ELSE SubSeq(s, CHOOSE a \in keep : \A b \in keep : a <= b,
                       CHOOSE a \in keep : \A b \in keep : a >= b)

\* float(text) for a text of digits: <<>> stands for ValueError
ParseFloat(text) ==
    IF text # <<>> /\ \A k \in 1..Len(text) : IsDigit(text[k])
    THEN <<Fix(DigitsToInt(text), 0)>>
    ELSE <<>>

\* an opportunity of the view; collateral and borrow_asset are the entries
\* of additional_info, None when absent
ViewOpp(category, protocol, chain, stablecoin, apy, tvl, risk, leverage, collateral, borrow) ==
    [category |-> category, protocol |-> protocol, chain |-> chain,
     stablecoin |-> stablecoin, apy |-> apy, tvl |-> tvl, risk_score |-> risk,
     leverage |-> leverage, source_url |-> <<>>, collateral |-> collateral,
     borrow_asset |-> borrow]

\* YieldOpportunity.unique_id: the digest of these five fields
UniqueId(o) == <<o.category, o.protocol, o.chain, o.stablecoin, o.source_url>>

\* HiddenItemsManager.is_hidden
IsHidden(hidden_ids, o) == UniqueId(o) \in hidden_ids

\* YieldTableApp._format_stablecoin_display for an opportunity that is not
\* a Merkl reward and whose collateral is not a PT
FormatStablecoinDisplay(o) ==
    IF o.borrow_asset # None /\ o.collateral # None
    THEN o.collateral \o <<"-", ">">> \o o.borrow_asset
    ELSE o.stablecoin

\* YieldTableApp._filter_hidden
FilterHidden(show_hidden, hidden_ids, opportunities) ==
    IF show_hidden THEN opportunities
    ELSE LET Visible(o) == ~IsHidden(hidden_ids, o)
         IN  SelectSeq(opportunities, Visible)

\* risk_levels of _apply_filters, "x in risk_levels" and risk_levels.index(x)
VIEW_RISK_LEVELS == << <<"l","o","w">>, <<"m","e","d","i","u","m">>, <<"h","i","g","h">>, <<"v","e","r","y"," ","h","i","g","h">> >>
InViewLevels(level) == \E k \in 1..Len(VIEW_RISK_LEVELS) : VIEW_RISK_LEVELS[k] = level
ViewRiskIndex(level) == CHOOSE k \in 1..Len(VIEW_RISK_LEVELS) : VIEW_RISK_LEVELS[k] = level

\* the list that _apply_filters stores in filtered_opportunities
ApplyFilters(all, show_hidden, hidden_ids, inp) ==
    LET category   == Lower(Strip(inp.category))
        protocol   == Lower(Strip(inp.protocol))
        chain      == Lower(Strip(inp.chain))
        stablecoin == Upper(Strip(inp.stablecoin))
        min_apy_str == Strip(inp.min_apy)
        max_risk   == Lower(Strip(inp.max_risk))
        f0 == FilterHidden(show_hidden, hidden_ids, all)
        f1 == IF category # <<>>
              THEN LET Ok(o) == Contains(Lower(o.category), category)
                   IN  SelectSeq(f0, Ok)
              ELSE f0
        f2 == IF protocol # <<>>
              THEN LET Ok(o) == Contains(Lower(o.protocol), protocol)
                   IN  SelectSeq(f1, Ok)
              ELSE f1
        f3 == IF chain # <<>>
              THEN LET Ok(o) == Contains(Lower(o.chain), chain) IN SelectSeq(f2, Ok)
              ELSE f2
        f4 == IF stablecoin # <<>>
              THEN LET Ok(o) == \/ Contains(Upper(o.stablecoin), stablecoin)
                                \/ Contains(Upper(FormatStablecoinDisplay(o)), stablecoin)
                   IN  SelectSeq(f3, Ok)
              ELSE f3
        f5 == IF min_apy_str # <<>> /\ ParseFloat(min_apy_str) # <<>>
              THEN LET Ok(o) == o.apy >= ParseFloat(min_apy_str)[1]
                   IN  SelectSeq(f4, Ok)
              ELSE f4
        f6 == IF max_risk # <<>> /\ InViewLevels(max_risk)
              THEN LET max_idx == ViewRiskIndex(max_risk)
                       Ok(o)   == ViewRiskIndex(Lower(o.risk_score)) <= max_idx
                   IN  SelectSeq(f5, Ok)
              ELSE f5
    IN  f6

\* the key of _sort_opportunities for the columns that the key bindings set
SortKey(o, sort_column) ==
    IF sort_column = "tvl" THEN (IF TruthyNumber(o.tvl) THEN o.tvl[1] ELSE 0)
    ELSE IF sort_column = "risk"
    THEN (IF InLevels(o.risk_score) THEN RiskIndex(o.risk_score) - 1 ELSE 2)
    ELSE o.apy

\* sorted(): one element put into a sorted list, after the elements that
\* compare equal
RECURSIVE InsertByKey(_, _, _, _)
InsertByKey(sorted, e, sort_column, sort_reverse) ==
    IF sorted = <<>> THEN <<e>>
    ELSE IF (IF sort_reverse
             THEN SortKey(e, sort_column) > SortKey(Head(sorted), sort_column)
             ELSE SortKey(e, sort_column) < SortKey(Head(sorted), sort_column))
    THEN <<e>> \o sorted
    ELSE <<Head(sorted)>> \o InsertByKey(Tail(sorted), e, sort_column, sort_reverse)

\* YieldTableApp._sort_opportunities
RECURSIVE SortOpportunities(_, _, _)
SortOpportunities(opportunities, sort_column, sort_reverse) ==
    IF opportunities = <<>> THEN <<>>
    ELSE InsertByKey(SortOpportunities(SubSeq(opportunities, 1, Len(opportunities) - 1),
                                       sort_column, sort_reverse),
                     opportunities[Len(opportunities)], sort_column, sort_reverse)

\* the opportunities given to the view: a lending position and two leverage
\* tiers of one loop, which have the same unique_id
ViewAave == ViewOpp(<<"L","e","n","d">>, <<"A","a","v","e">>, <<"E","t","h","e","r","e","u","m">>, <<"U","S","D","C">>, Fix(4, 0), <<5000000>>, <<"L","o","w">>, Fix(1, 0), None, None)
ViewLoop2 == ViewOpp(<<"M","o","r","p","h","o"," ","L","o","o","p">>, <<"M","o","r","p","h","o">>, <<"B","a","s","e">>, <<"s","U","S","D","e">>, Fix(9, 0), <<>>, <<"H","i","g","h">>, Fix(2, 0), <<"s","U","S","D","e">>, <<"U","S","D","C">>)
ViewLoop3 == ViewOpp(<<"M","o","r","p","h","o"," ","L","o","o","p">>, <<"M","o","r","p","h","o">>, <<"B","a","s","e">>, <<"s","U","S","D","e">>, Fix(12, 0), <<>>, <<"V","e","r","y"," ","H","i","g","h">>, Fix(3, 0), <<"s","U","S","D","e">>, <<"U","S","D","C">>)
ViewOpportunities == <<ViewAave, ViewLoop2, ViewLoop3>>

\* the values typed into the filter inputs
NoInputs ==
    [category |-> <<>>, protocol |-> <<>>, chain |-> <<>>, stablecoin |-> <<>>,
     min_apy |-> <<>>, max_risk |-> <<>>]
InputValues ==
    [category |-> { <<>> }, protocol |-> { <<>>, <<" ","a","a","v","e">> },
     chain |-> { <<>> }, stablecoin |-> { <<>>, <<"u","s","d","c">> },
     min_apy |-> { <<>>, <<"5">>, <<"x">> }, max_risk |-> { <<>>, <<"H","i","g","h">> }]

\* YieldTableApp.__init__: the hidden ids are what the file holds
InitView ==
    /\ scraper = "view"
    /\ markets = <<>>
    /\ live_yields = <<>>
    /\ today = RiskToday
    /\ pt_opp = NoPtOpp
    /\ i = 1
    /\ viable_markets = <<>>
    /\ local_opps = <<>>
    /\ result = <<>>
    /\ pc = "idle"
    /\ call = NoCall
    /\ cache = <<>>
    /\ clock = 0
    /\ fetch_data = "not called"
    /\ \E hidden_ids \in SUBSET { UniqueId(ViewAave), UniqueId(ViewLoop2) } :
          app = [all_opportunities |-> ViewOpportunities,
                 hidden_ids |-> hidden_ids,
                 show_hidden |-> FALSE,
                 filtered_opportunities |-> FilterHidden(FALSE, hidden_ids, ViewOpportunities),
                 sort_column |-> "apy",
                 sort_reverse |-> TRUE,
                 selected_opp |-> <<>>,
                 inputs |-> NoInputs]

\* _apply_filters on a view
Refiltered(a) ==
    [a EXCEPT !.filtered_opportunities =
        ApplyFilters(a.all_opportunities, a.show_hidden, a.hidden_ids, a.inputs)]

\* on_data_table_row_highlighted for the row row_idx
RowHighlighted ==
    /\ scraper = "view"
    /\ \E row_idx \in 0..(Len(app.all_opportunities) - 1) :
          LET sorted_opps == SortOpportunities(app.filtered_opportunities,
                                               app.sort_column, app.sort_reverse)
          IN  app' = IF row_idx < Len(sorted_opps)
                     THEN [app EXCEPT !.selected_opp = <<sorted_opps[row_idx + 1]>>]
                     ELSE app
    /\ UNCHANGED not_app

\* on_input_changed after a value was typed into one filter input
InputChanged ==
    /\ scraper = "view"
    /\ \E f \in DOMAIN InputValues : \E v \in InputValues[f] :
          app' = Refiltered([app EXCEPT !.inputs[f] = v])
    /\ UNCHANGED not_app

\* action_clear_filters
ClearFilters ==
    /\ scraper = "view"
    /\ app' = Refiltered([app EXCEPT !.inputs = NoInputs])
    /\ UNCHANGED not_app

\* action_sort_apy, action_sort_tvl
SortDescendingFirst ==
    /\ scraper = "view"
    /\ \E column \in {"apy", "tvl"} :
          app' = IF app.sort_column = column
                 THEN [app EXCEPT !.sort_reverse = ~app.sort_reverse]
                 ELSE [app EXCEPT !.sort_column = column, !.sort_reverse = TRUE]
    /\ UNCHANGED not_app

\* action_sort_risk
SortRisk ==
    /\ scraper = "view"
    /\ app' = IF app.sort_column = "risk"
              THEN [app EXCEPT !.sort_reverse = ~app.sort_reverse]
              ELSE [app EXCEPT !.sort_column = "risk", !.sort_reverse = FALSE]
    /\ UNCHANGED not_app

\* action_toggle_hide: toggle_hidden on the selected opportunity, then
\* _apply_filters only if it is now hidden and hidden items are not shown
ToggleHide ==
    /\ scraper = "view"
    /\ IF app.selected_opp = <<>> THEN app' = app
       ELSE LET opp_id        == UniqueId(app.selected_opp[1])
                is_now_hidden == opp_id \notin app.hidden_ids
                toggled       == [app EXCEPT !.hidden_ids =
                                     IF is_now_hidden THEN @ \cup {opp_id}
                                     ELSE @ \ {opp_id}]
            IN  app' = IF is_now_hidden /\ ~app.show_hidden
                       THEN Refiltered(toggled)
                       ELSE toggled
    /\ UNCHANGED not_app

\* action_toggle_show_hidden
ToggleShowHidden ==
    /\ scraper = "view"
    /\ app' = Refiltered([app EXCEPT !.show_hidden = ~app.show_hidden])
    /\ UNCHANGED not_app

\* action_unhide_all
UnhideAll ==
    /\ scraper = "view"
    /\ app' = Refiltered([app EXCEPT !.hidden_ids = {}])
    /\ UNCHANGED not_app

NextView ==
    \/ RowHighlighted
    \/ InputChanged
    \/ ClearFilters
    \/ SortDescendingFirst
    \/ SortRisk
    \/ ToggleHide
    \/ ToggleShowHidden
    \/ UnhideAll

SpecView == InitView /\ [][NextView]_vars

\* C30 (as stated): filtered_opportunities is the result of the filter
\* inputs and of the hidden filter on all_opportunities; while show_hidden
\* is false it holds no hidden opportunity and every opportunity that is
\* not hidden and passes the filter inputs
C30_Original_FilteredIsFiltersOfAll ==
    scraper = "view" =>
        app.filtered_opportunities =
            ApplyFilters(app.all_opportunities, app.show_hidden, app.hidden_ids, app.inputs)

\* the half of C30 that holds: while show_hidden is false,
\* filtered_opportunities holds no hidden opportunity
NoHiddenWhileNotShown ==
    (scraper = "view" /\ ~app.show_hidden) =>
        \A k \in 1..Len(app.filtered_opportunities) :
            ~IsHidden(app.hidden_ids, app.filtered_opportunities[k])
=============================================================================
